---------------------------- MODULE Spec2Model ----------------------------
(***************************************************************************)
(* GPU resource bookkeeping core of webgpu_x: the buddy allocator and its  *)
(* registry (memory/buddy_allocator.rs), the buffer pool                   *)
(* (memory/buffer_pool.rs), the staging belts and their registry           *)
(* (memory/staging_belt.rs) and the pipeline cache (pipeline/cache.rs).    *)
(* Every FFI entry point is one atomic action:                             *)
(* it takes the component's lock, runs the whole handler and releases the  *)
(* lock.  `last` records the most recent call, its arguments and what it   *)
(* returned to the caller.                                                 *)
(***************************************************************************)
EXTENDS Integers, Sequences, FiniteSets

VARIABLES ALLOCATORS, NEXT_ALLOCATOR_ID, BUFFER_POOL, clock,
          STAGING_BELTS, NEXT_BELT_ID, belt_log, belt_writes,
          PIPELINE_CACHE, cache_log,
          threads, locks, last

vars == <<ALLOCATORS, NEXT_ALLOCATOR_ID, BUFFER_POOL, clock,
          STAGING_BELTS, NEXT_BELT_ID, belt_log, belt_writes,
          PIPELINE_CACHE, cache_log,
          threads, locks, last>>

(***************************************************************************)
(* Bounds of the model and inputs of the calls.                            *)
(***************************************************************************)
\* ids the registry hands out before the model stops creating allocators
MaxAllocatorIds == 1
\* live allocations the callers hold at one time, over all allocators
MaxLive == 3
\* acquire calls the callers make on the pool
MaxAcquires == 2
\* milliseconds the clock advances
MaxTime == 2
\* add calls are made while total_size is below this many 512-byte units
MaxPoolUnits == 3
\* ids the belt registry hands out before the model stops creating belts
MaxBeltIds == 1
\* write calls the callers make on the belts
MaxWrites == 4
\* lookups the callers make on the pipeline cache
MaxLookups == 3
\* calls the threads make between them
MaxCalls == 3
\* ids each registry issues when the registries are looked at alone
MaxRegistryIds == 2
\* calls the threads make when the handlers run one loop turn or one level of
\* recursion at a time
MaxStepCalls == 2
\* calls the threads make on the registries when every lock and unlock is a
\* step
MaxLockCalls == 3

Handles == {5, 7}
BufferSizes == {512, 1024}
Usages == {64, 128}
AcquireSizes == {512, 1024, 2048}

TotalSizes == {32, 1000, 1024}
MinBlockSizes == {0, 48, 64}
AllocSizes == {1, 100, 1024, 2000}
\* offsets a caller may pass to free besides the live ones: an offset that was
\* freed before or never allocated, and an interior address
StaleOffsets == {0, 32}

ChunkSizes == {1024}
\* the sizes of the documented scenarios and an oversized write
WriteSizes == {1, 256, 512, 2000}
BeltIds == 1..MaxBeltIds

DescriptorHashes == {11, 22}
PipelineHandles == {3, 4}
TopNs == {0, 1, 3}
\* ids a caller may pass: live, destroyed, or not issued yet
AllocatorIds == 1..MaxAllocatorIds

EmptyMap == [x \in {} |-> 0]

(***************************************************************************)
(* u64 helpers of the standard library, computed bit by bit.               *)
(***************************************************************************)
RECURSIVE is_power_of_two(_)
is_power_of_two(n) ==
    /\ n > 0
    /\ \/ n = 1
       \/ n % 2 = 0 /\ is_power_of_two(n \div 2)

RECURSIVE NextPow2From(_, _)
NextPow2From(p, n) == IF p >= n THEN p ELSE NextPow2From(2 * p, n)

next_power_of_two(n) == NextPow2From(1, n)

RECURSIVE trailing_zeros(_)
trailing_zeros(n) ==
    IF n = 0 THEN 64
    ELSE IF n % 2 = 1 THEN 0
    ELSE 1 + trailing_zeros(n \div 2)

RECURSIVE Xor(_, _)
Xor(a, b) ==
    IF a = 0 THEN b
    ELSE IF b = 0 THEN a
    ELSE (((a % 2) + (b % 2)) % 2) + 2 * Xor(a \div 2, b \div 2)

Max(a, b) == IF a >= b THEN a ELSE b
Min(a, b) == IF a <= b THEN a ELSE b

\* 1 << order
Shl1(order) == 2 ^ order

\* Vec::pop: the last element leaves
Pop(s) == SubSeq(s, 1, Len(s) - 1)

\* Iterator::position: index of the first element equal to x, 0 when none
Position(s, x) ==
    IF \E i \in 1..Len(s) : s[i] = x
    THEN CHOOSE i \in 1..Len(s) : s[i] = x /\ \A j \in 1..(i - 1) : s[j] # x
    ELSE 0

\* Vec::swap_remove: the last element takes the removed element's place
SwapRemove(s, pos) ==
    [i \in 1..(Len(s) - 1) |-> IF i = pos THEN s[Len(s)] ELSE s[i]]

MapInsert(m, k, v) == [x \in DOMAIN m \cup {k} |-> IF x = k THEN v ELSE m[x]]
MapRemove(m, k) == [x \in DOMAIN m \ {k} |-> m[x]]

(***************************************************************************)
(* BuddyAllocator                                                          *)
(***************************************************************************)
\* the three assert!s of BuddyAllocator::new
ConfigValid(size, min_block_size) ==
    /\ is_power_of_two(size)
    /\ is_power_of_two(min_block_size)
    /\ size >= min_block_size

\* BuddyAllocator::new past its asserts
New(size, min_block_size) ==
    LET max_order == trailing_zeros(size \div min_block_size) IN
    [ size           |-> size,
      min_block_size |-> min_block_size,
      max_order      |-> max_order,
      free_lists     |-> [o \in 1..(max_order + 1) |->
                             IF o = max_order + 1 THEN <<0>> ELSE <<>>],
      allocated      |-> EmptyMap ]

BlockSize(a, order) == a.min_block_size * Shl1(order)

\* free_lists[order] is the (order+1)-th element of the sequence
FreeList(a, order) == a.free_lists[order + 1]
WithFreeList(a, order, list) ==
    [a EXCEPT !.free_lists = [@ EXCEPT ![order + 1] = list]]

\* a search that returns the free block it found without popping it
RECURSIVE allocate_order_keep(_, _)
allocate_order_keep(a, order) ==
    IF FreeList(a, order) # <<>>
    THEN [ ok     |-> TRUE,
           offset |-> FreeList(a, order)[Len(FreeList(a, order))],
           a      |-> a ]
    ELSE IF order < a.max_order
    THEN LET r == allocate_order_keep(a, order + 1) IN
         IF ~r.ok THEN [ok |-> FALSE, offset |-> 0, a |-> a]
         ELSE LET buddy_offset == r.offset + BlockSize(a, order) IN
              [ ok     |-> TRUE,
                offset |-> r.offset,
                a      |-> WithFreeList(r.a, order,
                               Append(FreeList(r.a, order), buddy_offset)) ]
    ELSE [ok |-> FALSE, offset |-> 0, a |-> a]

\* a split that puts the upper half one block too far
RECURSIVE allocate_order_wide(_, _)
allocate_order_wide(a, order) ==
    IF FreeList(a, order) # <<>>
    THEN [ ok     |-> TRUE,
           offset |-> FreeList(a, order)[Len(FreeList(a, order))],
           a      |-> WithFreeList(a, order, Pop(FreeList(a, order))) ]
    ELSE IF order < a.max_order
    THEN LET r == allocate_order_wide(a, order + 1) IN
         IF ~r.ok THEN [ok |-> FALSE, offset |-> 0, a |-> a]
         ELSE LET buddy_offset == r.offset + BlockSize(a, order + 1) IN
              [ ok     |-> TRUE,
                offset |-> r.offset,
                a      |-> WithFreeList(r.a, order,
                               Append(FreeList(r.a, order), buddy_offset)) ]
    ELSE [ok |-> FALSE, offset |-> 0, a |-> a]

\* a split that hands out the upper half and keeps the lower half free
RECURSIVE allocate_order_upper(_, _)
allocate_order_upper(a, order) ==
    IF FreeList(a, order) # <<>>
    THEN [ ok     |-> TRUE,
           offset |-> FreeList(a, order)[Len(FreeList(a, order))],
           a      |-> WithFreeList(a, order, Pop(FreeList(a, order))) ]
    ELSE IF order < a.max_order
    THEN LET r == allocate_order_upper(a, order + 1) IN
         IF ~r.ok THEN [ok |-> FALSE, offset |-> 0, a |-> a]
         ELSE LET buddy_offset == r.offset + BlockSize(a, order) IN
              [ ok     |-> TRUE,
                offset |-> buddy_offset,
                a      |-> WithFreeList(r.a, order,
                               Append(FreeList(r.a, order), r.offset)) ]
    ELSE [ok |-> FALSE, offset |-> 0, a |-> a]

RECURSIVE allocate_order(_, _)
allocate_order(a, order) ==
    IF FreeList(a, order) # <<>>
    THEN [ ok     |-> TRUE,
           offset |-> FreeList(a, order)[Len(FreeList(a, order))],
           a      |-> WithFreeList(a, order, Pop(FreeList(a, order))) ]
    ELSE IF order < a.max_order
    THEN LET r == allocate_order(a, order + 1) IN
         IF ~r.ok THEN [ok |-> FALSE, offset |-> 0, a |-> a]
         ELSE LET buddy_offset == r.offset + BlockSize(a, order) IN
              [ ok     |-> TRUE,
                offset |-> r.offset,
                a      |-> WithFreeList(r.a, order,
                               Append(FreeList(r.a, order), buddy_offset)) ]
    ELSE [ok |-> FALSE, offset |-> 0, a |-> a]

\* an allocate that takes the order of the request without rounding it up
allocate_unrounded(a, size) ==
    LET rounded == Max(size, a.min_block_size)
        order   == trailing_zeros(rounded \div a.min_block_size)
    IN IF order > a.max_order
       THEN [res |-> "TooLarge", offset |-> 0, a |-> a]
       ELSE LET r == allocate_order(a, order) IN
            IF ~r.ok
            THEN [res |-> "OutOfMemory", offset |-> 0, a |-> a]
            ELSE [ res    |-> "ok",
                   offset |-> r.offset,
                   a      |-> [r.a EXCEPT !.allocated =
                                  MapInsert(@, r.offset, order)] ]

\* unwrap_or(0) on the search, the sentinel the FFI layer uses
allocate_sentinel(a, size) ==
    LET rounded == next_power_of_two(Max(size, a.min_block_size))
        order   == trailing_zeros(rounded \div a.min_block_size)
    IN IF order > a.max_order
       THEN [res |-> "TooLarge", offset |-> 0, a |-> a]
       ELSE LET r == allocate_order(a, order) IN
            [ res    |-> IF r.ok THEN "ok" ELSE "OutOfMemory",
              offset |-> r.offset,
              a      |-> [r.a EXCEPT !.allocated = MapInsert(@, r.offset, order)] ]

\* an allocate that takes a block of the very order or none
allocate_exact(a, size) ==
    LET rounded == next_power_of_two(Max(size, a.min_block_size))
        order   == trailing_zeros(rounded \div a.min_block_size)
    IN IF order > a.max_order
       THEN [res |-> "TooLarge", offset |-> 0, a |-> a]
       ELSE IF FreeList(a, order) = <<>>
       THEN [res |-> "OutOfMemory", offset |-> 0, a |-> a]
       ELSE LET r == allocate_order(a, order) IN
            [ res    |-> "ok",
              offset |-> r.offset,
              a      |-> [r.a EXCEPT !.allocated =
                             MapInsert(@, r.offset, order)] ]

allocate(a, size) ==
    LET rounded == next_power_of_two(Max(size, a.min_block_size))
        order   == trailing_zeros(rounded \div a.min_block_size)
    IN IF order > a.max_order
       THEN [res |-> "TooLarge", offset |-> 0, a |-> a]
       ELSE LET r == allocate_order(a, order) IN
            IF ~r.ok
            THEN [res |-> "OutOfMemory", offset |-> 0, a |-> a]
            ELSE [ res    |-> "ok",
                   offset |-> r.offset,
                   a      |-> [r.a EXCEPT !.allocated =
                                  MapInsert(@, r.offset, order)] ]

\* a merge that looks for the buddy at offset + block_size only
RECURSIVE free_order_plus(_, _, _)
free_order_plus(a, offset, order) ==
    LET buddy_offset == offset + BlockSize(a, order)
        pos          == Position(FreeList(a, order), buddy_offset)
    IN IF order < a.max_order /\ pos # 0
       THEN free_order_plus(
                WithFreeList(a, order, SwapRemove(FreeList(a, order), pos)),
                Min(offset, buddy_offset), order + 1)
       ELSE WithFreeList(a, order, Append(FreeList(a, order), offset))

\* a free that never merges
free_order_push(a, offset, order) ==
    WithFreeList(a, order, Append(FreeList(a, order), offset))

RECURSIVE free_order(_, _, _)
free_order(a, offset, order) ==
    LET buddy_offset == Xor(offset, BlockSize(a, order))
        pos          == Position(FreeList(a, order), buddy_offset)
    IN IF order < a.max_order /\ pos # 0
       THEN free_order(WithFreeList(a, order, SwapRemove(FreeList(a, order), pos)),
                       Min(offset, buddy_offset), order + 1)
       ELSE WithFreeList(a, order, Append(FreeList(a, order), offset))

\* a free that takes order 0 for an offset it does not know
free_unchecked(a, offset) ==
    IF offset \notin DOMAIN a.allocated
    THEN [ok |-> FALSE, a |-> free_order(a, offset, 0)]
    ELSE [ ok |-> TRUE,
           a  |-> free_order([a EXCEPT !.allocated = MapRemove(@, offset)],
                             offset, a.allocated[offset]) ]

\* a free that leaves the offset in allocated
free_keep_allocated(a, offset) ==
    IF offset \notin DOMAIN a.allocated
    THEN [ok |-> FALSE, a |-> a]
    ELSE [ok |-> TRUE, a |-> free_order(a, offset, a.allocated[offset])]

free(a, offset) ==
    IF offset \notin DOMAIN a.allocated
    THEN [ok |-> FALSE, a |-> a]
    ELSE [ ok |-> TRUE,
           a  |-> free_order([a EXCEPT !.allocated = MapRemove(@, offset)],
                             offset, a.allocated[offset]) ]

RECURSIVE SumOver(_, _)
SumOver(f, S) ==
    IF S = {} THEN 0
    ELSE LET x == CHOOSE y \in S : TRUE IN f[x] + SumOver(f, S \ {x})

\* u64 subtraction: a result below zero overflows (a panic in a debug build,
\* a wrapped value in a release build) and is reported as Underflow
Underflow == -1
SubU64(x, y) == IF x >= y THEN x - y ELSE Underflow

stats(a) ==
    LET allocated_bytes ==
            SumOver([o \in DOMAIN a.allocated |-> BlockSize(a, a.allocated[o])],
                    DOMAIN a.allocated)
    IN [ total_size       |-> a.size,
         allocated_blocks |-> Cardinality(DOMAIN a.allocated),
         free_blocks      |-> SumOver([o \in 1..Len(a.free_lists) |->
                                          Len(a.free_lists[o])],
                                      1..Len(a.free_lists)),
         allocated_bytes  |-> allocated_bytes,
         free_bytes       |-> SubU64(a.size, allocated_bytes) ]

(***************************************************************************)
(* The allocator registry and its FFI entry points.                        *)
(***************************************************************************)
LiveAllocations ==
    SumOver([id \in DOMAIN ALLOCATORS |->
                Cardinality(DOMAIN ALLOCATORS[id].allocated)],
            DOMAIN ALLOCATORS)

\* the configuration BUFFER_POOL is created with
DefaultConfig ==
    [ max_buffers         |-> 100,
      max_total_size      |-> 256 * 1024 * 1024,
      eviction_timeout_ms |-> 60000,
      enable_size_classes |-> 1 ]

\* a configuration a caller may install: two buffers, 1 KiB, 1 ms idle
SmallConfig ==
    [ max_buffers         |-> 2,
      max_total_size      |-> 1024,
      eviction_timeout_ms |-> 1,
      enable_size_classes |-> 0 ]

Configs == {DefaultConfig, SmallConfig}

\* BufferPool::new(config)
PoolNew(config) ==
    [ buffers    |-> EmptyMap,
      config     |-> config,
      total_size |-> 0,
      hits       |-> 0,
      misses     |-> 0 ]

\* the threads that call into the library and the mutexes they contend for;
\* locks[m] is the thread that holds m, 0 when none does
Threads == {1, 2}
Locks ==
    { "ALLOCATORS", "NEXT_ALLOCATOR_ID", "BUFFER_POOL",
      "STAGING_BELTS", "NEXT_BELT_ID" }
IdleThread == [pc |-> "idle", n |-> 0]

\* PipelineCache::new
CacheNew ==
    [ render_pipelines  |-> EmptyMap,
      compute_pipelines |-> EmptyMap,
      total_hits        |-> 0,
      total_misses      |-> 0 ]

Init ==
    /\ ALLOCATORS = EmptyMap
    /\ NEXT_ALLOCATOR_ID = 1
    /\ BUFFER_POOL = PoolNew(DefaultConfig)
    /\ clock = 0
    /\ STAGING_BELTS = EmptyMap
    /\ NEXT_BELT_ID = 1
    /\ belt_log = EmptyMap
    /\ belt_writes = 0
    /\ PIPELINE_CACHE = CacheNew
    /\ cache_log = [render |-> EmptyMap, compute |-> EmptyMap]
    /\ threads = [t \in Threads |-> IdleThread]
    /\ locks = [m \in Locks |-> 0]
    /\ last = [op |-> "init"]

PoolVars == <<BUFFER_POOL, clock>>
BeltVars == <<STAGING_BELTS, NEXT_BELT_ID, belt_log, belt_writes>>
CacheVars == <<PIPELINE_CACHE, cache_log>>
ThreadVars == <<threads, locks>>
BuddyVars == <<ALLOCATORS, NEXT_ALLOCATOR_ID>>

\* BuddyAllocator::new runs, and may panic, before either lock is taken
buddy_allocator_create ==
    \E total_size \in TotalSizes, min_block_size \in MinBlockSizes :
        /\ NEXT_ALLOCATOR_ID <= MaxAllocatorIds
        /\ IF ConfigValid(total_size, min_block_size)
           THEN /\ ALLOCATORS' = MapInsert(ALLOCATORS, NEXT_ALLOCATOR_ID,
                                           New(total_size, min_block_size))
                /\ NEXT_ALLOCATOR_ID' = NEXT_ALLOCATOR_ID + 1
                /\ last' = [ op |-> "create", total_size |-> total_size,
                             min_block_size |-> min_block_size,
                             outcome |-> "returned", id |-> NEXT_ALLOCATOR_ID ]
           ELSE /\ UNCHANGED BuddyVars
                /\ last' = [ op |-> "create", total_size |-> total_size,
                             min_block_size |-> min_block_size,
                             outcome |-> "panic", id |-> 0 ]
        /\ UNCHANGED <<PoolVars, ThreadVars, BeltVars, CacheVars>>

buddy_allocator_destroy ==
    \E allocator_id \in AllocatorIds :
        /\ ALLOCATORS' = MapRemove(ALLOCATORS, allocator_id)
        /\ last' = [ op |-> "destroy", allocator_id |-> allocator_id,
                     ret |-> IF allocator_id \in DOMAIN ALLOCATORS THEN 1 ELSE 0 ]
        /\ UNCHANGED <<NEXT_ALLOCATOR_ID, PoolVars, ThreadVars, BeltVars, CacheVars>>

buddy_allocator_allocate ==
    \E allocator_id \in AllocatorIds, size \in AllocSizes :
        /\ LiveAllocations < MaxLive
        /\ IF allocator_id \in DOMAIN ALLOCATORS
           THEN LET r == allocate(ALLOCATORS[allocator_id], size) IN
                /\ ALLOCATORS' = [ALLOCATORS EXCEPT ![allocator_id] = r.a]
                /\ last' = [ op |-> "allocate", allocator_id |-> allocator_id,
                             size |-> size, res |-> r.res,
                             ret |-> IF r.res = "ok"
                                     THEN [ offset |-> r.offset,
                                            size |-> next_power_of_two(
                                                Max(size, r.a.min_block_size)) ]
                                     ELSE [offset |-> 0, size |-> 0] ]
           ELSE /\ UNCHANGED ALLOCATORS
                /\ last' = [ op |-> "allocate", allocator_id |-> allocator_id,
                             size |-> size, res |-> "NoAllocator",
                             ret |-> [offset |-> 0, size |-> 0] ]
        /\ UNCHANGED <<NEXT_ALLOCATOR_ID, PoolVars, ThreadVars, BeltVars, CacheVars>>

buddy_allocator_free ==
    \E allocator_id \in AllocatorIds :
        \E offset \in StaleOffsets \cup
                (IF allocator_id \in DOMAIN ALLOCATORS
                 THEN DOMAIN ALLOCATORS[allocator_id].allocated ELSE {}) :
            /\ IF allocator_id \in DOMAIN ALLOCATORS
               THEN LET r == free(ALLOCATORS[allocator_id], offset) IN
                    /\ ALLOCATORS' = [ALLOCATORS EXCEPT ![allocator_id] = r.a]
                    /\ last' = [ op |-> "free", allocator_id |-> allocator_id,
                                 offset |-> offset,
                                 ret |-> IF r.ok THEN 1 ELSE 0 ]
               ELSE /\ UNCHANGED ALLOCATORS
                    /\ last' = [ op |-> "free", allocator_id |-> allocator_id,
                                 offset |-> offset, ret |-> 0 ]
            /\ UNCHANGED <<NEXT_ALLOCATOR_ID, PoolVars, ThreadVars, BeltVars, CacheVars>>

ZeroStats ==
    [ total_size |-> 0, allocated_blocks |-> 0, free_blocks |-> 0,
      allocated_bytes |-> 0, free_bytes |-> 0 ]

buddy_allocator_stats ==
    \E allocator_id \in AllocatorIds :
        /\ last' = [ op |-> "stats", allocator_id |-> allocator_id,
                     ret |-> IF allocator_id \in DOMAIN ALLOCATORS
                             THEN stats(ALLOCATORS[allocator_id])
                             ELSE ZeroStats ]
        /\ UNCHANGED <<BuddyVars, ThreadVars, PoolVars, BeltVars, CacheVars>>

NextBuddy ==
    \/ buddy_allocator_create
    \/ buddy_allocator_destroy
    \/ buddy_allocator_allocate
    \/ buddy_allocator_free
    \/ buddy_allocator_stats

SpecBuddy == Init /\ [][NextBuddy]_vars

(***************************************************************************)
(* BufferPool.  timestamp() reads the wall clock, which Tick advances;     *)
(* a HashMap is iterated in an arbitrary order, so the scan of acquire may *)
(* stop at any entry that matches.                                         *)
(***************************************************************************)
\* a scan that does not look at in_use
Matching_any(p, size, usage) ==
    { h \in DOMAIN p.buffers :
        /\ p.buffers[h].size >= size
        /\ p.buffers[h].usage = usage }

\* a scan that wants a buffer strictly larger than the request
Matching_strict(p, size, usage) ==
    { h \in DOMAIN p.buffers :
        /\ p.buffers[h].in_use = 0
        /\ p.buffers[h].size > size
        /\ p.buffers[h].usage = usage }

\* the entries the scan of acquire accepts
Matching(p, size, usage) ==
    { h \in DOMAIN p.buffers :
        /\ p.buffers[h].in_use = 0
        /\ p.buffers[h].size >= size
        /\ p.buffers[h].usage = usage }

\* the hit branch of acquire, the scan having stopped at handle
acquire_hit(p, handle, now) ==
    [p EXCEPT !.buffers[handle].in_use = 1,
              !.buffers[handle].last_used = now,
              !.hits = @ + 1]

OverCapacity(p, size) ==
    \/ Cardinality(DOMAIN p.buffers) >= p.config.max_buffers
    \/ p.total_size + size > p.config.max_total_size

\* a collection that takes an entry idle for exactly the timeout too
ToRemove_ge(p, now) ==
    { h \in DOMAIN p.buffers :
        /\ p.buffers[h].in_use = 0
        /\ now - p.buffers[h].last_used >= p.config.eviction_timeout_ms }

\* the handles evict_old_buffers collects in to_remove
ToRemove(p, now) ==
    { h \in DOMAIN p.buffers :
        /\ p.buffers[h].in_use = 0
        /\ now - p.buffers[h].last_used > p.config.eviction_timeout_ms }

evict_old_buffers(p, now) ==
    LET to_remove == ToRemove(p, now) IN
    [p EXCEPT !.buffers = [h \in DOMAIN p.buffers \ to_remove |-> p.buffers[h]],
              !.total_size = @ - SumOver([h \in to_remove |-> p.buffers[h].size],
                                         to_remove)]

\* a miss that evicts whether or not the pool is at capacity
acquire_miss_evict(p, size, now) ==
    evict_old_buffers([p EXCEPT !.misses = @ + 1], now)

\* a miss that is counted only when the pool is over capacity
acquire_miss_uncounted(p, size, now) ==
    IF OverCapacity(p, size)
    THEN evict_old_buffers([p EXCEPT !.misses = @ + 1], now)
    ELSE p

\* the miss branch of acquire; both capacity checks end in None
acquire_miss(p, size, now) ==
    LET q == [p EXCEPT !.misses = @ + 1] IN
    IF OverCapacity(q, size) THEN evict_old_buffers(q, now) ELSE q

\* a release that refreshes last_used and leaves in_use set
release_touch(p, handle, now) ==
    IF handle \in DOMAIN p.buffers
    THEN [p EXCEPT !.buffers[handle].last_used = now]
    ELSE p

release(p, handle, now) ==
    IF handle \in DOMAIN p.buffers
    THEN [p EXCEPT !.buffers[handle].in_use = 0,
                   !.buffers[handle].last_used = now]
    ELSE p

add(p, handle, size, usage, now) ==
    [p EXCEPT !.buffers = MapInsert(@, handle,
                              [ size |-> size, usage |-> usage,
                                last_used |-> now, in_use |-> 0 ]),
              !.total_size = @ + size]

\* a remove that forgets the size accounting
remove_keep_total(p, handle) ==
    IF handle \in DOMAIN p.buffers
    THEN [p EXCEPT !.buffers = MapRemove(@, handle)]
    ELSE p

remove(p, handle) ==
    IF handle \in DOMAIN p.buffers
    THEN [p EXCEPT !.buffers = MapRemove(@, handle),
                   !.total_size = @ - p.buffers[handle].size]
    ELSE p

\* a configure that applies the new limits to the resident entries at once
configure_evict(p, config, now) ==
    evict_old_buffers([p EXCEPT !.config = config], now)

\* the body of buffer_pool_configure
configure(p, config, now) == [p EXCEPT !.config = config]

None == [some |-> FALSE, handle |-> 0]
Some(handle) == [some |-> TRUE, handle |-> handle]

\* unwrap_or(0)
UnwrapOr0(opt) == IF opt.some THEN opt.handle ELSE 0

buffer_pool_acquire ==
    \E size \in AcquireSizes, usage \in Usages :
        /\ BUFFER_POOL.hits + BUFFER_POOL.misses < MaxAcquires
        /\ IF Matching(BUFFER_POOL, size, usage) # {}
           THEN \E handle \in Matching(BUFFER_POOL, size, usage) :
                /\ BUFFER_POOL' = acquire_hit(BUFFER_POOL, handle, clock)
                /\ last' = [ op |-> "acquire", size |-> size, usage |-> usage,
                             evicted |-> {}, opt |-> Some(handle),
                             ret |-> UnwrapOr0(Some(handle)) ]
           ELSE /\ BUFFER_POOL' = acquire_miss(BUFFER_POOL, size, clock)
                /\ last' = [ op |-> "acquire", size |-> size, usage |-> usage,
                             evicted |-> DOMAIN BUFFER_POOL.buffers \
                                         DOMAIN BUFFER_POOL'.buffers,
                             opt |-> None, ret |-> UnwrapOr0(None) ]
        /\ UNCHANGED <<clock, BuddyVars, ThreadVars, BeltVars, CacheVars>>

buffer_pool_release ==
    \E handle \in Handles :
        /\ BUFFER_POOL' = release(BUFFER_POOL, handle, clock)
        /\ last' = [op |-> "release", handle |-> handle]
        /\ UNCHANGED <<clock, BuddyVars, ThreadVars, BeltVars, CacheVars>>

buffer_pool_add ==
    \E handle \in Handles, size \in BufferSizes, usage \in Usages :
        /\ BUFFER_POOL.total_size < MaxPoolUnits * 512
        /\ BUFFER_POOL' = add(BUFFER_POOL, handle, size, usage, clock)
        /\ last' = [ op |-> "add", handle |-> handle, size |-> size,
                     usage |-> usage ]
        /\ UNCHANGED <<clock, BuddyVars, ThreadVars, BeltVars, CacheVars>>

buffer_pool_remove ==
    \E handle \in Handles :
        /\ BUFFER_POOL' = remove(BUFFER_POOL, handle)
        /\ last' = [ op |-> "remove", handle |-> handle,
                     found |-> handle \in DOMAIN BUFFER_POOL.buffers ]
        /\ UNCHANGED <<clock, BuddyVars, ThreadVars, BeltVars, CacheVars>>

\* hit_rate is the f64 quotient hits / total, kept as the exact fraction
\* a rate that divides the hits by the misses
hit_rate_per_miss(hits, misses) ==
    IF misses > 0 THEN <<hits, misses>> ELSE <<0, 1>>

\* hits as f64 / total as f64, or 0.0 when total is 0: the quotient is kept
\* as the pair <<numerator, denominator>>
hit_rate(hits, misses) ==
    LET total == hits + misses IN
    IF total > 0 THEN <<hits, total>> ELSE <<0, 1>>

buffer_pool_stats ==
    /\ last' = [ op |-> "pool_stats",
                 ret |-> [ total_buffers    |-> Cardinality(DOMAIN BUFFER_POOL.buffers),
                           in_use           |-> Cardinality(
                               { h \in DOMAIN BUFFER_POOL.buffers :
                                   BUFFER_POOL.buffers[h].in_use # 0 }),
                           total_size_bytes |-> BUFFER_POOL.total_size,
                           hits             |-> BUFFER_POOL.hits,
                           misses           |-> BUFFER_POOL.misses,
                           hit_rate         |-> hit_rate(BUFFER_POOL.hits,
                                                         BUFFER_POOL.misses) ] ]
    /\ UNCHANGED <<PoolVars, BuddyVars, ThreadVars, BeltVars, CacheVars>>

buffer_pool_configure ==
    \E config \in Configs :
        /\ BUFFER_POOL' = configure(BUFFER_POOL, config, clock)
        /\ last' = [op |-> "configure", config |-> config]
        /\ UNCHANGED <<clock, BuddyVars, ThreadVars, BeltVars, CacheVars>>

buffer_pool_clear ==
    /\ BUFFER_POOL' = [BUFFER_POOL EXCEPT !.buffers = EmptyMap, !.total_size = 0]
    /\ last' = [op |-> "clear"]
    /\ UNCHANGED <<clock, BuddyVars, ThreadVars, BeltVars, CacheVars>>

buffer_pool_evict ==
    /\ BUFFER_POOL' = evict_old_buffers(BUFFER_POOL, clock)
    /\ last' = [ op |-> "evict",
                 evicted |-> DOMAIN BUFFER_POOL.buffers \ DOMAIN BUFFER_POOL'.buffers ]
    /\ UNCHANGED <<clock, BuddyVars, ThreadVars, BeltVars, CacheVars>>

\* a millisecond of wall-clock time passes between two calls; the clock is
\* taken to run forward only, as a timestamp of the data model does
Tick ==
    /\ clock < MaxTime
    /\ clock' = clock + 1
    /\ last' = [op |-> "tick"]
    /\ UNCHANGED <<BUFFER_POOL, BuddyVars, ThreadVars, BeltVars, CacheVars>>

NextPool ==
    \/ buffer_pool_acquire
    \/ buffer_pool_release
    \/ buffer_pool_add
    \/ buffer_pool_remove
    \/ buffer_pool_stats
    \/ buffer_pool_configure
    \/ buffer_pool_clear
    \/ buffer_pool_evict
    \/ Tick

SpecPool == Init /\ [][NextPool]_vars

(***************************************************************************)
(* StagingBelt (memory/staging_belt.rs).  A chunk is a record              *)
(* [buffer_handle, size, offset, capacity]; active_chunks and free_chunks  *)
(* are Vecs, channel is what is in flight between sender and receiver.     *)
(* Sizes and offsets stay far below 2^64, so no u64 sum wraps.             *)
(***************************************************************************)
BeltNew(chunk_size) ==
    [ chunk_size     |-> chunk_size,
      active_chunks  |-> <<>>,
      free_chunks    |-> <<>>,
      channel        |-> <<>>,
      next_buffer_id |-> 1 ]

\* a test that looks at the chunk's offset only
HasSpace_start(chunk, size) == chunk.offset <= chunk.capacity

\* the closure of position in get_chunk_with_space
HasSpace(chunk, size) == chunk.offset + size <= chunk.capacity

\* index of the first active chunk with room, 0 when none
found_index(b, size) ==
    IF \E i \in 1..Len(b.active_chunks) : HasSpace(b.active_chunks[i], size)
    THEN CHOOSE i \in 1..Len(b.active_chunks) :
             /\ HasSpace(b.active_chunks[i], size)
             /\ \A j \in 1..(i - 1) : ~HasSpace(b.active_chunks[j], size)
    ELSE 0

\* a chunk source that never issues a second id
get_chunk_same_id(b, size) ==
    LET idx == found_index(b, size) IN
    IF idx # 0
    THEN [belt |-> b, index |-> idx, from |-> "active"]
    ELSE IF Len(b.free_chunks) > 0
    THEN [ belt  |-> [b EXCEPT !.free_chunks = Pop(@),
                               !.active_chunks = Append(@,
                                   [b.free_chunks[Len(b.free_chunks)] EXCEPT !.offset = 0])],
           index |-> Len(b.active_chunks) + 1,
           from  |-> "free" ]
    ELSE [ belt  |-> [b EXCEPT !.active_chunks = Append(@,
                                   [ buffer_handle |-> b.next_buffer_id,
                                     size          |-> b.chunk_size,
                                     offset        |-> 0,
                                     capacity      |-> b.chunk_size ])],
           index |-> Len(b.active_chunks) + 1,
           from  |-> "new" ]

\* a chunk source that never looks at the free list
get_chunk_always_new(b, size) ==
    LET idx == found_index(b, size) IN
    IF idx # 0
    THEN [belt |-> b, index |-> idx, from |-> "active"]
    ELSE [ belt  |-> [b EXCEPT !.next_buffer_id = @ + 1,
                               !.active_chunks = Append(@,
                                   [ buffer_handle |-> b.next_buffer_id,
                                     size          |-> b.chunk_size,
                                     offset        |-> 0,
                                     capacity      |-> b.chunk_size ])],
           index |-> Len(b.active_chunks) + 1,
           from  |-> IF Len(b.free_chunks) > 0 THEN "free" ELSE "new" ]

\* a chunk source that hands out the last free chunk and leaves it on the
\* free list
get_chunk_keep_free(b, size) ==
    LET idx == found_index(b, size) IN
    IF idx # 0
    THEN [belt |-> b, index |-> idx, from |-> "active"]
    ELSE IF Len(b.free_chunks) > 0
    THEN [ belt  |-> [b EXCEPT !.active_chunks = Append(@,
                                   [b.free_chunks[Len(b.free_chunks)] EXCEPT !.offset = 0])],
           index |-> Len(b.active_chunks) + 1,
           from  |-> "free" ]
    ELSE [ belt  |-> [b EXCEPT !.next_buffer_id = @ + 1,
                               !.active_chunks = Append(@,
                                   [ buffer_handle |-> b.next_buffer_id,
                                     size          |-> b.chunk_size,
                                     offset        |-> 0,
                                     capacity      |-> b.chunk_size ])],
           index |-> Len(b.active_chunks) + 1,
           from  |-> "new" ]

\* get_chunk_with_space: the belt after the call, the index in its
\* active_chunks of the chunk returned, and where the chunk came from
get_chunk_with_space(b, size) ==
    LET idx == found_index(b, size) IN
    IF idx # 0
    THEN [belt |-> b, index |-> idx, from |-> "active"]
    ELSE IF Len(b.free_chunks) > 0
    THEN [ belt  |-> [b EXCEPT !.free_chunks = Pop(@),
                               !.active_chunks = Append(@,
                                   [b.free_chunks[Len(b.free_chunks)] EXCEPT !.offset = 0])],
           index |-> Len(b.active_chunks) + 1,
           from  |-> "free" ]
    ELSE [ belt  |-> [b EXCEPT !.next_buffer_id = @ + 1,
                               !.active_chunks = Append(@,
                                   [ buffer_handle |-> b.next_buffer_id,
                                     size          |-> b.chunk_size,
                                     offset        |-> 0,
                                     capacity      |-> b.chunk_size ])],
           index |-> Len(b.active_chunks) + 1,
           from  |-> "new" ]

\* a write that reports the offset after the advance
write_post_offset(b, size) ==
    LET g     == get_chunk_with_space(b, size)
        chunk == g.belt.active_chunks[g.index]
    IN  [ belt |-> [g.belt EXCEPT !.active_chunks[g.index].offset = @ + size],
          ret  |-> [ buffer_handle |-> chunk.buffer_handle,
                     offset        |-> chunk.offset + size,
                     size          |-> size ],
          from |-> g.from ]

\* StagingBelt::write: the belt after the call and the region returned
write(b, size) ==
    LET g     == get_chunk_with_space(b, size)
        chunk == g.belt.active_chunks[g.index]
    IN  [ belt |-> [g.belt EXCEPT !.active_chunks[g.index].offset = @ + size],
          ret  |-> [ buffer_handle |-> chunk.buffer_handle,
                     offset        |-> chunk.offset,
                     size          |-> size ],
          from |-> g.from ]

\* the chunks of a Vec with their offsets reset
ResetAll(chunks) == [i \in 1..Len(chunks) |-> [chunks[i] EXCEPT !.offset = 0]]

\* a finish whose receive loop stops after one chunk
finish_recv_one(b) ==
    LET inflight == b.channel \o ResetAll(b.active_chunks) IN
    [b EXCEPT !.active_chunks = <<>>,
              !.free_chunks   = IF Len(inflight) > 0
                                THEN Append(@, Head(inflight)) ELSE @,
              !.channel       = IF Len(inflight) > 0
                                THEN Tail(inflight) ELSE <<>>]

\* StagingBelt::finish: every active chunk is reset and sent, then try_recv
\* is called until the channel is empty
finish(b) ==
    LET inflight == b.channel \o ResetAll(b.active_chunks) IN
    [b EXCEPT !.active_chunks = <<>>,
              !.free_chunks   = @ \o inflight,
              !.channel       = <<>>]

\* StagingBelt::stats
belt_stats(b) ==
    [ active_chunks   |-> Len(b.active_chunks),
      free_chunks     |-> Len(b.free_chunks),
      chunk_size      |-> b.chunk_size,
      total_allocated |-> (Len(b.active_chunks) + Len(b.free_chunks))
                              * b.chunk_size ]

\* what staging_belt_write returns for a belt the registry does not hold
InvalidWrite == [buffer_handle |-> 0, offset |-> 0, size |-> 0]

staging_belt_create ==
    \E chunk_size \in ChunkSizes :
        /\ NEXT_BELT_ID <= MaxBeltIds
        /\ STAGING_BELTS' = MapInsert(STAGING_BELTS, NEXT_BELT_ID, BeltNew(chunk_size))
        /\ NEXT_BELT_ID' = NEXT_BELT_ID + 1
        /\ belt_log' = MapInsert(belt_log, NEXT_BELT_ID, [writes |-> <<>>, issued |-> {}])
        /\ last' = [op |-> "belt_create", chunk_size |-> chunk_size, ret |-> NEXT_BELT_ID]
        /\ UNCHANGED <<belt_writes, BuddyVars, ThreadVars, PoolVars, CacheVars>>

\* belt_log[id].writes are the regions returned since the belt's last finish,
\* in call order; belt_log[id].issued are the buffer handles returned so far;
\* belt_writes counts the write calls made on belts the registry holds
staging_belt_write ==
    \E belt_handle \in BeltIds, size \in WriteSizes :
        IF belt_handle \in DOMAIN STAGING_BELTS
        THEN /\ belt_writes < MaxWrites
             /\ belt_writes' = belt_writes + 1
             /\ LET w == write(STAGING_BELTS[belt_handle], size) IN
                /\ STAGING_BELTS' = [STAGING_BELTS EXCEPT ![belt_handle] = w.belt]
                /\ belt_log' = [belt_log EXCEPT
                       ![belt_handle].writes = Append(@, w.ret),
                       ![belt_handle].issued = @ \cup {w.ret.buffer_handle}]
                /\ last' = [ op |-> "belt_write", belt |-> belt_handle,
                             size |-> size, ret |-> w.ret, from |-> w.from ]
             /\ UNCHANGED NEXT_BELT_ID
             /\ UNCHANGED <<BuddyVars, ThreadVars, PoolVars, CacheVars>>
        ELSE /\ last' = [ op |-> "belt_write", belt |-> belt_handle,
                          size |-> size, ret |-> InvalidWrite, from |-> "none" ]
             /\ UNCHANGED <<BuddyVars, ThreadVars, PoolVars, BeltVars, CacheVars>>

staging_belt_finish ==
    \E belt_handle \in BeltIds :
        /\ IF belt_handle \in DOMAIN STAGING_BELTS
           THEN /\ STAGING_BELTS' = [STAGING_BELTS EXCEPT
                                        ![belt_handle] = finish(@)]
                /\ belt_log' = [belt_log EXCEPT ![belt_handle].writes = <<>>]
           ELSE UNCHANGED <<STAGING_BELTS, belt_log>>
        /\ last' = [ op |-> "belt_finish", belt |-> belt_handle,
                     was_active |-> IF belt_handle \in DOMAIN STAGING_BELTS
                                    THEN Len(STAGING_BELTS[belt_handle].active_chunks)
                                    ELSE 0,
                     was_free   |-> IF belt_handle \in DOMAIN STAGING_BELTS
                                    THEN Len(STAGING_BELTS[belt_handle].free_chunks)
                                    ELSE 0 ]
        /\ UNCHANGED <<NEXT_BELT_ID, belt_writes, BuddyVars, ThreadVars, PoolVars, CacheVars>>

staging_belt_stats ==
    \E belt_handle \in BeltIds :
        /\ last' = [ op |-> "belt_stats", belt |-> belt_handle,
                     ret |-> IF belt_handle \in DOMAIN STAGING_BELTS
                             THEN belt_stats(STAGING_BELTS[belt_handle])
                             ELSE [ active_chunks |-> 0, free_chunks |-> 0,
                                    chunk_size |-> 0, total_allocated |-> 0 ] ]
        /\ UNCHANGED <<BuddyVars, ThreadVars, PoolVars, BeltVars, CacheVars>>

staging_belt_destroy ==
    \E belt_handle \in BeltIds :
        /\ STAGING_BELTS' = MapRemove(STAGING_BELTS, belt_handle)
        /\ belt_log' = MapRemove(belt_log, belt_handle)
        /\ last' = [op |-> "belt_destroy", belt |-> belt_handle]
        /\ UNCHANGED <<NEXT_BELT_ID, belt_writes, BuddyVars, ThreadVars, PoolVars, CacheVars>>

NextBelt ==
    \/ staging_belt_create
    \/ staging_belt_write
    \/ staging_belt_finish
    \/ staging_belt_stats
    \/ staging_belt_destroy

SpecBelt == Init /\ [][NextBelt]_vars

(***************************************************************************)
(* PipelineCache (pipeline/cache.rs).  render_pipelines and                *)
(* compute_pipelines map a descriptor hash to a CachedPipeline             *)
(* [handle, hash, created_at, hit_count].                                  *)
(***************************************************************************)
\* a lookup that counts the hit in total_hits only
lookup_render_uncounted(c, hash) ==
    IF hash \in DOMAIN c.render_pipelines
    THEN [ cache |-> [c EXCEPT !.total_hits = @ + 1],
           opt   |-> Some(c.render_pipelines[hash].handle) ]
    ELSE [ cache |-> [c EXCEPT !.total_misses = @ + 1], opt |-> None ]

lookup_render_pipeline(c, hash) ==
    IF hash \in DOMAIN c.render_pipelines
    THEN [ cache |-> [c EXCEPT !.render_pipelines[hash].hit_count = @ + 1,
                               !.total_hits = @ + 1],
           opt   |-> Some(c.render_pipelines[hash].handle) ]
    ELSE [ cache |-> [c EXCEPT !.total_misses = @ + 1], opt |-> None ]

\* an insert that keeps the hit_count of the entry it replaces
cache_render_keep_hits(c, hash, handle, now) ==
    [c EXCEPT !.render_pipelines = MapInsert(@, hash,
                  [ handle |-> handle, hash |-> hash, created_at |-> now,
                    hit_count |-> IF hash \in DOMAIN c.render_pipelines
                                  THEN c.render_pipelines[hash].hit_count
                                  ELSE 0 ])]

cache_render_pipeline(c, hash, handle, now) ==
    [c EXCEPT !.render_pipelines = MapInsert(@, hash,
                  [ handle |-> handle, hash |-> hash,
                    created_at |-> now, hit_count |-> 0 ])]

\* a compute lookup that falls back to the render map
lookup_compute_any(c, hash) ==
    IF hash \in DOMAIN c.compute_pipelines
    THEN [ cache |-> [c EXCEPT !.compute_pipelines[hash].hit_count = @ + 1,
                               !.total_hits = @ + 1],
           opt   |-> Some(c.compute_pipelines[hash].handle) ]
    ELSE IF hash \in DOMAIN c.render_pipelines
    THEN [ cache |-> [c EXCEPT !.render_pipelines[hash].hit_count = @ + 1,
                               !.total_hits = @ + 1],
           opt   |-> Some(c.render_pipelines[hash].handle) ]
    ELSE [ cache |-> [c EXCEPT !.total_misses = @ + 1], opt |-> None ]

\* a compute lookup that counts a hit on the entry and not in total_hits
lookup_compute_local(c, hash) ==
    IF hash \in DOMAIN c.compute_pipelines
    THEN [ cache |-> [c EXCEPT !.compute_pipelines[hash].hit_count = @ + 1],
           opt   |-> Some(c.compute_pipelines[hash].handle) ]
    ELSE [ cache |-> [c EXCEPT !.total_misses = @ + 1], opt |-> None ]

lookup_compute_pipeline(c, hash) ==
    IF hash \in DOMAIN c.compute_pipelines
    THEN [ cache |-> [c EXCEPT !.compute_pipelines[hash].hit_count = @ + 1,
                               !.total_hits = @ + 1],
           opt   |-> Some(c.compute_pipelines[hash].handle) ]
    ELSE [ cache |-> [c EXCEPT !.total_misses = @ + 1], opt |-> None ]

cache_compute_pipeline(c, hash, handle, now) ==
    [c EXCEPT !.compute_pipelines = MapInsert(@, hash,
                  [ handle |-> handle, hash |-> hash,
                    created_at |-> now, hit_count |-> 0 ])]

\* HashMap::remove(..).is_some() as 1 or 0, and the cache after the removal
remove_render(c, hash) ==
    [ cache |-> [c EXCEPT !.render_pipelines = MapRemove(@, hash)],
      ret   |-> IF hash \in DOMAIN c.render_pipelines THEN 1 ELSE 0 ]

\* a remove that reports success whatever it found
remove_compute_true(c, hash) ==
    [ cache |-> [c EXCEPT !.compute_pipelines = MapRemove(@, hash)],
      ret   |-> 1 ]

remove_compute(c, hash) ==
    [ cache |-> [c EXCEPT !.compute_pipelines = MapRemove(@, hash)],
      ret   |-> IF hash \in DOMAIN c.compute_pipelines THEN 1 ELSE 0 ]

\* a clear that also resets the counters
clear_counters(c) ==
    [c EXCEPT !.render_pipelines = EmptyMap, !.compute_pipelines = EmptyMap,
              !.total_hits = 0, !.total_misses = 0]

\* the body of pipeline_cache_clear
clear(c) == [c EXCEPT !.render_pipelines = EmptyMap, !.compute_pipelines = EmptyMap]

\* the orders in which iterating a HashMap may yield the keys S
Orders(S) ==
    { f \in [1..Cardinality(S) -> S] :
        \A i, j \in 1..Cardinality(S) : f[i] = f[j] => i = j }

\* a sort that puts the smallest hit_count first
RECURSIVE sort_ascending(_)
sort_ascending(hits) ==
    IF hits = <<>> THEN <<>>
    ELSE LET x    == Head(hits)
             rest == sort_ascending(Tail(hits))
             k    == Cardinality({ i \in 1..Len(rest) :
                                     rest[i].hit_count < x.hit_count })
         IN  SubSeq(rest, 1, k) \o <<x>> \o SubSeq(rest, k + 1, Len(rest))

\* hits.sort_by(|a, b| b.hit_count.cmp(&a.hit_count)): a stable sort, so of
\* two elements with equal hit_count the one that was first stays first
RECURSIVE sort_by_hit_count(_)
sort_by_hit_count(hits) ==
    IF hits = <<>> THEN <<>>
    ELSE LET x    == Head(hits)
             rest == sort_by_hit_count(Tail(hits))
             k    == Cardinality({ i \in 1..Len(rest) :
                                     rest[i].hit_count > x.hit_count })
         IN  SubSeq(rest, 1, k) \o <<x>> \o SubSeq(rest, k + 1, Len(rest))

\* Vec::truncate
truncate(hits, n) == SubSeq(hits, 1, Min(n, Len(hits)))

\* pipeline_cache_top_hits when the two maps are iterated in the orders
\* render_order and compute_order
top_hits(c, render_order, compute_order, top_n) ==
    LET render  == [ i \in 1..Len(render_order) |->
                       [ hash          |-> render_order[i],
                         handle        |-> c.render_pipelines[render_order[i]].handle,
                         hit_count     |-> c.render_pipelines[render_order[i]].hit_count,
                         pipeline_type |-> "render" ] ]
        compute == [ i \in 1..Len(compute_order) |->
                       [ hash          |-> compute_order[i],
                         handle        |-> c.compute_pipelines[compute_order[i]].handle,
                         hit_count     |-> c.compute_pipelines[compute_order[i]].hit_count,
                         pipeline_type |-> "compute" ] ]
    IN  truncate(sort_by_hit_count(render \o compute), top_n)

\* cache_log.render[h] and cache_log.compute[h] are the handle of the latest
\* insert of h in that map that no remove of h and no clear has followed
pipeline_cache_lookup_render ==
    \E descriptor_hash \in DescriptorHashes :
        LET r == lookup_render_pipeline(PIPELINE_CACHE, descriptor_hash) IN
        /\ PIPELINE_CACHE.total_hits + PIPELINE_CACHE.total_misses < MaxLookups
        /\ PIPELINE_CACHE' = r.cache
        /\ last' = [ op |-> "lookup_render", hash |-> descriptor_hash,
                     opt |-> r.opt, ret |-> UnwrapOr0(r.opt) ]
        /\ UNCHANGED <<cache_log, BuddyVars, ThreadVars, PoolVars, BeltVars>>

pipeline_cache_insert_render ==
    \E descriptor_hash \in DescriptorHashes, pipeline_handle \in PipelineHandles :
        /\ PIPELINE_CACHE' = cache_render_pipeline(PIPELINE_CACHE, descriptor_hash,
                                                   pipeline_handle, clock)
        /\ cache_log' = [cache_log EXCEPT
                             !.render = MapInsert(@, descriptor_hash, pipeline_handle)]
        /\ last' = [ op |-> "insert_render", hash |-> descriptor_hash,
                     handle |-> pipeline_handle,
                     old_hits |-> IF descriptor_hash \in
                                        DOMAIN PIPELINE_CACHE.render_pipelines
                                  THEN PIPELINE_CACHE.render_pipelines[
                                           descriptor_hash].hit_count
                                  ELSE -1 ]
        /\ UNCHANGED <<BuddyVars, ThreadVars, PoolVars, BeltVars>>

pipeline_cache_lookup_compute ==
    \E descriptor_hash \in DescriptorHashes :
        LET r == lookup_compute_pipeline(PIPELINE_CACHE, descriptor_hash) IN
        /\ PIPELINE_CACHE.total_hits + PIPELINE_CACHE.total_misses < MaxLookups
        /\ PIPELINE_CACHE' = r.cache
        /\ last' = [ op |-> "lookup_compute", hash |-> descriptor_hash,
                     opt |-> r.opt, ret |-> UnwrapOr0(r.opt) ]
        /\ UNCHANGED <<cache_log, BuddyVars, ThreadVars, PoolVars, BeltVars>>

pipeline_cache_insert_compute ==
    \E descriptor_hash \in DescriptorHashes, pipeline_handle \in PipelineHandles :
        /\ PIPELINE_CACHE' = cache_compute_pipeline(PIPELINE_CACHE, descriptor_hash,
                                                    pipeline_handle, clock)
        /\ cache_log' = [cache_log EXCEPT
                             !.compute = MapInsert(@, descriptor_hash, pipeline_handle)]
        /\ last' = [ op |-> "insert_compute", hash |-> descriptor_hash,
                     handle |-> pipeline_handle,
                     old_hits |-> IF descriptor_hash \in
                                        DOMAIN PIPELINE_CACHE.compute_pipelines
                                  THEN PIPELINE_CACHE.compute_pipelines[
                                           descriptor_hash].hit_count
                                  ELSE -1 ]
        /\ UNCHANGED <<BuddyVars, ThreadVars, PoolVars, BeltVars>>

pipeline_cache_stats ==
    /\ last' = [ op |-> "cache_stats",
                 ret |-> [ render_pipelines  |->
                               Cardinality(DOMAIN PIPELINE_CACHE.render_pipelines),
                           compute_pipelines |->
                               Cardinality(DOMAIN PIPELINE_CACHE.compute_pipelines),
                           total_hits        |-> PIPELINE_CACHE.total_hits,
                           total_misses      |-> PIPELINE_CACHE.total_misses,
                           hit_rate          |-> hit_rate(PIPELINE_CACHE.total_hits,
                                                          PIPELINE_CACHE.total_misses) ] ]
    /\ UNCHANGED <<BuddyVars, ThreadVars, PoolVars, BeltVars, CacheVars>>

pipeline_cache_clear ==
    /\ PIPELINE_CACHE' = clear(PIPELINE_CACHE)
    /\ cache_log' = [render |-> EmptyMap, compute |-> EmptyMap]
    /\ last' = [ op |-> "cache_clear",
                 cleared |-> Cardinality(DOMAIN PIPELINE_CACHE.render_pipelines)
                           + Cardinality(DOMAIN PIPELINE_CACHE.compute_pipelines) ]
    /\ UNCHANGED <<BuddyVars, ThreadVars, PoolVars, BeltVars>>

pipeline_cache_remove_render ==
    \E descriptor_hash \in DescriptorHashes :
        LET r == remove_render(PIPELINE_CACHE, descriptor_hash) IN
        /\ PIPELINE_CACHE' = r.cache
        /\ cache_log' = [cache_log EXCEPT !.render = MapRemove(@, descriptor_hash)]
        /\ last' = [ op |-> "remove_render", hash |-> descriptor_hash,
                     ret |-> r.ret ]
        /\ UNCHANGED <<BuddyVars, ThreadVars, PoolVars, BeltVars>>

pipeline_cache_remove_compute ==
    \E descriptor_hash \in DescriptorHashes :
        LET r == remove_compute(PIPELINE_CACHE, descriptor_hash) IN
        /\ PIPELINE_CACHE' = r.cache
        /\ cache_log' = [cache_log EXCEPT !.compute = MapRemove(@, descriptor_hash)]
        /\ last' = [ op |-> "remove_compute", hash |-> descriptor_hash,
                     ret |-> r.ret ]
        /\ UNCHANGED <<BuddyVars, ThreadVars, PoolVars, BeltVars>>

pipeline_cache_top_hits ==
    \E top_n \in TopNs :
        \E render_order \in Orders(DOMAIN PIPELINE_CACHE.render_pipelines),
           compute_order \in Orders(DOMAIN PIPELINE_CACHE.compute_pipelines) :
            /\ last' = [ op |-> "top_hits", top_n |-> top_n,
                         ret |-> top_hits(PIPELINE_CACHE, render_order,
                                          compute_order, top_n) ]
            /\ UNCHANGED <<BuddyVars, ThreadVars, PoolVars, BeltVars, CacheVars>>

NextCache ==
    \/ pipeline_cache_lookup_render
    \/ pipeline_cache_insert_render
    \/ pipeline_cache_lookup_compute
    \/ pipeline_cache_insert_compute
    \/ pipeline_cache_stats
    \/ pipeline_cache_clear
    \/ pipeline_cache_remove_render
    \/ pipeline_cache_remove_compute
    \/ pipeline_cache_top_hits

SpecCache == Init /\ [][NextCache]_vars

\* the pool and the cache share no variable: every pool call leaves
\* PIPELINE_CACHE alone and every cache call leaves BUFFER_POOL alone, so what
\* a stats call reports does not depend on the calls made on the other
\* component.  In SpecStats the callers work on one of the two while the
\* other rests in its initial state.
PoolIdle == BUFFER_POOL = PoolNew(DefaultConfig) /\ clock = 0
CacheIdle == PIPELINE_CACHE = CacheNew

NextStats ==
    \/ CacheIdle /\ NextPool
    \/ PoolIdle /\ NextCache

SpecStats == Init /\ [][NextStats]_vars

(***************************************************************************)
(* Threads.  Every entry point takes its component's parking_lot Mutex     *)
(* first, works on the guarded value and releases the mutex when the guard *)
(* goes out of scope on return.  A thread is idle, waits for the mutex     *)
(* with a call in hand, or is inside: it has read the guarded value and    *)
(* worked out what to store and to return, and has yet to store it.        *)
(***************************************************************************)
\* the mutex the entry point of a call locks
LockOf(call) ==
    IF call.op \in {"acquire", "release"} THEN "BUFFER_POOL" ELSE "ALLOCATORS"

\* a mutex that lets everyone in
lock_none(m) == TRUE

\* Mutex::lock returns when no thread holds the mutex
lock_free(m) == locks[m] = 0

\* the calls a thread may make in the current state
ThreadCalls ==
    { [op |-> "acquire", size |-> size, usage |-> usage] :
          size \in AcquireSizes, usage \in Usages }
    \cup { [op |-> "release", handle |-> handle] : handle \in Handles }
    \cup { [op |-> "allocate", allocator_id |-> id, size |-> size] :
               id \in DOMAIN ALLOCATORS, size \in AllocSizes }
    \cup UNION { { [op |-> "free", allocator_id |-> id, offset |-> offset] :
                     offset \in StaleOffsets \cup DOMAIN ALLOCATORS[id].allocated } :
                 id \in DOMAIN ALLOCATORS }

\* what a call may store in the guarded value and return when it runs alone
\* on pool p and registry allocs
Outcomes(call, p, allocs) ==
    IF call.op = "acquire"
    THEN IF Matching(p, call.size, call.usage) # {}
         THEN { [state |-> acquire_hit(p, handle, clock), ret |-> handle] :
                    handle \in Matching(p, call.size, call.usage) }
         ELSE { [state |-> acquire_miss(p, call.size, clock), ret |-> 0] }
    ELSE IF call.op = "release"
    THEN { [state |-> release(p, call.handle, clock), ret |-> 0] }
    ELSE IF call.allocator_id \notin DOMAIN allocs
    THEN { [state |-> allocs, ret |-> 0] }
    ELSE IF call.op = "allocate"
    THEN LET r == allocate(allocs[call.allocator_id], call.size) IN
         { [ state |-> [allocs EXCEPT ![call.allocator_id] = r.a],
             ret   |-> IF r.res = "ok"
                       THEN [ offset |-> r.offset,
                              size |-> next_power_of_two(
                                  Max(call.size, r.a.min_block_size)) ]
                       ELSE [offset |-> 0, size |-> 0] ] }
    ELSE LET r == free(allocs[call.allocator_id], call.offset) IN
         { [ state |-> [allocs EXCEPT ![call.allocator_id] = r.a],
             ret   |-> IF r.ok THEN 1 ELSE 0 ] }

\* a thread calls an entry point
thread_call(t) ==
    /\ threads[t].pc = "idle"
    /\ SumOver([u \in Threads |-> threads[u].n], Threads) < MaxCalls
    /\ \E call \in ThreadCalls :
           threads' = [threads EXCEPT ![t] =
                          [pc |-> "wait", n |-> @.n + 1, call |-> call]]
    /\ last' = [op |-> "call", thread |-> t]
    /\ UNCHANGED <<locks, BuddyVars, PoolVars, BeltVars, CacheVars>>

\* the thread gets the mutex and runs the handler on the guarded value
thread_lock(t) ==
    /\ threads[t].pc = "wait"
    /\ lock_free(LockOf(threads[t].call))
    /\ locks' = [locks EXCEPT ![LockOf(threads[t].call)] = t]
    /\ \E out \in Outcomes(threads[t].call, BUFFER_POOL, ALLOCATORS) :
           threads' = [threads EXCEPT ![t] =
                          [ pc |-> "inside", n |-> @.n, call |-> @.call,
                            out |-> out ]]
    /\ last' = [op |-> "lock", thread |-> t]
    /\ UNCHANGED <<BuddyVars, PoolVars, BeltVars, CacheVars>>

\* the handler's result is in the guarded value, the guard is dropped and
\* the call returns
thread_return(t) ==
    /\ threads[t].pc = "inside"
    /\ IF LockOf(threads[t].call) = "BUFFER_POOL"
       THEN /\ BUFFER_POOL' = threads[t].out.state
            /\ UNCHANGED ALLOCATORS
       ELSE /\ ALLOCATORS' = threads[t].out.state
            /\ UNCHANGED BUFFER_POOL
    /\ locks' = [locks EXCEPT ![LockOf(threads[t].call)] = 0]
    /\ threads' = [threads EXCEPT ![t] = [pc |-> "idle", n |-> @.n]]
    /\ last' = [ op |-> "return", thread |-> t, call |-> threads[t].call,
                 ret |-> threads[t].out.ret ]
    /\ UNCHANGED <<NEXT_ALLOCATOR_ID, clock, BeltVars, CacheVars>>

NextThreads ==
    \E t \in Threads :
        \/ thread_call(t)
        \/ thread_lock(t)
        \/ thread_return(t)

\* the threads start on an allocator of 1024 bytes in blocks of 64 and on a
\* pool of two buffers of one size and usage: the state after
\* buddy_allocator_create(1024, 64), buffer_pool_add(5, 1024, 64) and
\* buffer_pool_add(7, 1024, 64)
InitThreads ==
    /\ ALLOCATORS = MapInsert(EmptyMap, 1, New(1024, 64))
    /\ NEXT_ALLOCATOR_ID = 2
    /\ BUFFER_POOL = add(add(PoolNew(DefaultConfig), 5, 1024, 64, 0),
                         7, 1024, 64, 0)
    /\ clock = 0
    /\ STAGING_BELTS = EmptyMap
    /\ NEXT_BELT_ID = 1
    /\ belt_log = EmptyMap
    /\ belt_writes = 0
    /\ PIPELINE_CACHE = CacheNew
    /\ cache_log = [render |-> EmptyMap, compute |-> EmptyMap]
    /\ threads = [t \in Threads |-> IdleThread]
    /\ locks = [m \in Locks |-> 0]
    /\ last = [op |-> "init"]

SpecThreads == InitThreads /\ [][NextThreads]_vars

(***************************************************************************)
(* The registries alone.  The entry points of buddy_allocator.rs and       *)
(* staging_belt.rs once more, called with ids that were issued, destroyed  *)
(* or never issued, on allocators of one size that are allocated and freed *)
(* as a whole and belts that are written half a chunk at a time, so that   *)
(* each registry can issue several ids.                                    *)
(***************************************************************************)
RegistryIds == 1..(MaxRegistryIds + 1)
RegistrySizes == {1000, 1024}
RegistryAllocSizes == {1024, 2000}

registry_allocator_create ==
    \E total_size \in RegistrySizes :
        /\ NEXT_ALLOCATOR_ID <= MaxRegistryIds
        /\ IF ConfigValid(total_size, 64)
           THEN /\ ALLOCATORS' = MapInsert(ALLOCATORS, NEXT_ALLOCATOR_ID,
                                           New(total_size, 64))
                /\ NEXT_ALLOCATOR_ID' = NEXT_ALLOCATOR_ID + 1
                /\ last' = [ op |-> "create", total_size |-> total_size,
                             min_block_size |-> 64,
                             outcome |-> "returned", id |-> NEXT_ALLOCATOR_ID ]
           ELSE /\ UNCHANGED BuddyVars
                /\ last' = [ op |-> "create", total_size |-> total_size,
                             min_block_size |-> 64,
                             outcome |-> "panic", id |-> 0 ]
        /\ UNCHANGED <<PoolVars, ThreadVars, BeltVars, CacheVars>>

\* a destroy that hands the id back when it was the one issued last
registry_allocator_destroy_reuse ==
    \E allocator_id \in RegistryIds :
        /\ ALLOCATORS' = MapRemove(ALLOCATORS, allocator_id)
        /\ NEXT_ALLOCATOR_ID' = IF /\ allocator_id \in DOMAIN ALLOCATORS
                                   /\ allocator_id = NEXT_ALLOCATOR_ID - 1
                                THEN allocator_id ELSE NEXT_ALLOCATOR_ID
        /\ last' = [ op |-> "destroy", allocator_id |-> allocator_id,
                     ret |-> IF allocator_id \in DOMAIN ALLOCATORS THEN 1 ELSE 0 ]
        /\ UNCHANGED <<PoolVars, ThreadVars, BeltVars, CacheVars>>

registry_allocator_destroy ==
    \E allocator_id \in RegistryIds :
        /\ ALLOCATORS' = MapRemove(ALLOCATORS, allocator_id)
        /\ last' = [ op |-> "destroy", allocator_id |-> allocator_id,
                     ret |-> IF allocator_id \in DOMAIN ALLOCATORS THEN 1 ELSE 0 ]
        /\ UNCHANGED <<NEXT_ALLOCATOR_ID, PoolVars, ThreadVars, BeltVars, CacheVars>>

registry_allocator_allocate ==
    \E allocator_id \in RegistryIds, size \in RegistryAllocSizes :
        /\ IF allocator_id \in DOMAIN ALLOCATORS
           THEN LET r == allocate(ALLOCATORS[allocator_id], size) IN
                /\ ALLOCATORS' = [ALLOCATORS EXCEPT ![allocator_id] = r.a]
                /\ last' = [ op |-> "allocate", allocator_id |-> allocator_id,
                             size |-> size, res |-> r.res,
                             ret |-> IF r.res = "ok"
                                     THEN [ offset |-> r.offset,
                                            size |-> next_power_of_two(
                                                Max(size, r.a.min_block_size)) ]
                                     ELSE [offset |-> 0, size |-> 0] ]
           ELSE /\ UNCHANGED ALLOCATORS
                /\ last' = [ op |-> "allocate", allocator_id |-> allocator_id,
                             size |-> size, res |-> "NoAllocator",
                             ret |-> [offset |-> 0, size |-> 0] ]
        /\ UNCHANGED <<NEXT_ALLOCATOR_ID, PoolVars, ThreadVars, BeltVars, CacheVars>>

registry_allocator_free ==
    \E allocator_id \in RegistryIds, offset \in {0} :
        /\ IF allocator_id \in DOMAIN ALLOCATORS
           THEN LET r == free(ALLOCATORS[allocator_id], offset) IN
                /\ ALLOCATORS' = [ALLOCATORS EXCEPT ![allocator_id] = r.a]
                /\ last' = [ op |-> "free", allocator_id |-> allocator_id,
                             offset |-> offset,
                             ret |-> IF r.ok THEN 1 ELSE 0 ]
           ELSE /\ UNCHANGED ALLOCATORS
                /\ last' = [ op |-> "free", allocator_id |-> allocator_id,
                             offset |-> offset, ret |-> 0 ]
        /\ UNCHANGED <<NEXT_ALLOCATOR_ID, PoolVars, ThreadVars, BeltVars, CacheVars>>

registry_allocator_stats ==
    \E allocator_id \in RegistryIds :
        /\ last' = [ op |-> "stats", allocator_id |-> allocator_id,
                     ret |-> IF allocator_id \in DOMAIN ALLOCATORS
                             THEN stats(ALLOCATORS[allocator_id])
                             ELSE ZeroStats ]
        /\ UNCHANGED <<BuddyVars, ThreadVars, PoolVars, BeltVars, CacheVars>>

ZeroBeltStats ==
    [ active_chunks |-> 0, free_chunks |-> 0,
      chunk_size |-> 0, total_allocated |-> 0 ]

registry_belt_create ==
    \E chunk_size \in ChunkSizes :
        /\ NEXT_BELT_ID <= MaxRegistryIds
        /\ STAGING_BELTS' = MapInsert(STAGING_BELTS, NEXT_BELT_ID, BeltNew(chunk_size))
        /\ NEXT_BELT_ID' = NEXT_BELT_ID + 1
        /\ belt_log' = MapInsert(belt_log, NEXT_BELT_ID, [writes |-> <<>>, issued |-> {}])
        /\ last' = [op |-> "belt_create", chunk_size |-> chunk_size, ret |-> NEXT_BELT_ID]
        /\ UNCHANGED <<belt_writes, BuddyVars, ThreadVars, PoolVars, CacheVars>>

registry_belt_write ==
    \E belt_handle \in RegistryIds, size \in {512} :
        IF belt_handle \in DOMAIN STAGING_BELTS
        THEN /\ belt_writes < MaxRegistryIds
             /\ belt_writes' = belt_writes + 1
             /\ LET w == write(STAGING_BELTS[belt_handle], size) IN
                /\ STAGING_BELTS' = [STAGING_BELTS EXCEPT ![belt_handle] = w.belt]
                /\ belt_log' = [belt_log EXCEPT
                       ![belt_handle].writes = Append(@, w.ret),
                       ![belt_handle].issued = @ \cup {w.ret.buffer_handle}]
                /\ last' = [ op |-> "belt_write", belt |-> belt_handle,
                             size |-> size, ret |-> w.ret, from |-> w.from ]
             /\ UNCHANGED NEXT_BELT_ID
             /\ UNCHANGED <<BuddyVars, ThreadVars, PoolVars, CacheVars>>
        ELSE /\ last' = [ op |-> "belt_write", belt |-> belt_handle,
                          size |-> size, ret |-> InvalidWrite, from |-> "none" ]
             /\ UNCHANGED <<BuddyVars, ThreadVars, PoolVars, BeltVars, CacheVars>>

registry_belt_finish ==
    \E belt_handle \in RegistryIds :
        /\ IF belt_handle \in DOMAIN STAGING_BELTS
           THEN /\ STAGING_BELTS' = [STAGING_BELTS EXCEPT
                                        ![belt_handle] = finish(@)]
                /\ belt_log' = [belt_log EXCEPT ![belt_handle].writes = <<>>]
           ELSE UNCHANGED <<STAGING_BELTS, belt_log>>
        /\ last' = [op |-> "belt_finish", belt |-> belt_handle]
        /\ UNCHANGED <<NEXT_BELT_ID, belt_writes, BuddyVars, ThreadVars, PoolVars, CacheVars>>

registry_belt_stats ==
    \E belt_handle \in RegistryIds :
        /\ last' = [ op |-> "belt_stats", belt |-> belt_handle,
                     ret |-> IF belt_handle \in DOMAIN STAGING_BELTS
                             THEN belt_stats(STAGING_BELTS[belt_handle])
                             ELSE ZeroBeltStats ]
        /\ UNCHANGED <<BuddyVars, ThreadVars, PoolVars, BeltVars, CacheVars>>

registry_belt_destroy ==
    \E belt_handle \in RegistryIds :
        /\ STAGING_BELTS' = MapRemove(STAGING_BELTS, belt_handle)
        /\ belt_log' = MapRemove(belt_log, belt_handle)
        /\ last' = [op |-> "belt_destroy", belt |-> belt_handle]
        /\ UNCHANGED <<NEXT_BELT_ID, belt_writes, BuddyVars, ThreadVars, PoolVars, CacheVars>>

\* neither registry has been used yet
AllocatorsIdle == ALLOCATORS = EmptyMap /\ NEXT_ALLOCATOR_ID = 1
BeltsIdle == STAGING_BELTS = EmptyMap /\ NEXT_BELT_ID = 1

NextRegistryAllocators ==
    \/ registry_allocator_create
    \/ registry_allocator_destroy
    \/ registry_allocator_allocate
    \/ registry_allocator_free
    \/ registry_allocator_stats

NextRegistryBelts ==
    \/ registry_belt_create
    \/ registry_belt_write
    \/ registry_belt_finish
    \/ registry_belt_stats
    \/ registry_belt_destroy

\* one registry at a time: the two are separate statics and no entry point
\* of one touches the other
NextRegistry ==
    \/ BeltsIdle /\ NextRegistryAllocators
    \/ AllocatorsIdle /\ NextRegistryBelts

SpecRegistry == Init /\ [][NextRegistry]_vars

(***************************************************************************)
(* The handlers step by step.  A call of allocate, free or finish is taken *)
(* apart into the turns of its loops and the levels of its recursion; the  *)
(* thread holds the registry's mutex from entry to return.  allocate_order *)
(* at order k has frames for the orders k..j while it looks for a block    *)
(* at order j, and unwinds them one by one once a block is found.          *)
(***************************************************************************)
StepCalls ==
    { [op |-> "allocate", id |-> 1, size |-> size] : size \in {1, 1024, 2000} }
    \cup { [op |-> "free", id |-> 1, offset |-> offset] :
               offset \in {32} \cup (IF 1 \in DOMAIN ALLOCATORS
                                     THEN DOMAIN ALLOCATORS[1].allocated ELSE {}) }
    \cup { [op |-> "write", id |-> 1, size |-> size] : size \in {512, 2000} }
    \cup { [op |-> "finish", id |-> 1] }

StepLockOf(call) ==
    IF call.op \in {"allocate", "free"} THEN "ALLOCATORS" ELSE "STAGING_BELTS"

\* a search that tries order max_order again when its free list is empty
descend_retry(a, j) ==
    IF FreeList(a, j) # <<>>
    THEN [ a      |-> WithFreeList(a, j, Pop(FreeList(a, j))),
           to     |-> "unwind", j |-> j,
           offset |-> FreeList(a, j)[Len(FreeList(a, j))] ]
    ELSE IF j < a.max_order
    THEN [a |-> a, to |-> "allocate_order", j |-> j + 1, offset |-> 0]
    ELSE [a |-> a, to |-> "allocate_order", j |-> j, offset |-> 0]

\* allocate_order entered at order j: pop a block of that order, or call
\* allocate_order(j + 1), or give up at max_order
descend(a, j) ==
    IF FreeList(a, j) # <<>>
    THEN [ a      |-> WithFreeList(a, j, Pop(FreeList(a, j))),
           to     |-> "unwind", j |-> j,
           offset |-> FreeList(a, j)[Len(FreeList(a, j))] ]
    ELSE IF j < a.max_order
    THEN [a |-> a, to |-> "allocate_order", j |-> j + 1, offset |-> 0]
    ELSE [a |-> a, to |-> "none", j |-> j, offset |-> 0]

\* allocate_order(j + 1) has returned offset to the frame of order j, which
\* pushes the upper half and returns offset in its turn
unwind(a, j, offset) ==
    WithFreeList(a, j, Append(FreeList(a, j), offset + BlockSize(a, j)))

\* one level of free_order: merge with the free buddy and go one order up,
\* or push the block
merge(a, offset, order) ==
    LET buddy_offset == Xor(offset, BlockSize(a, order))
        pos          == Position(FreeList(a, order), buddy_offset)
    IN IF order < a.max_order /\ pos # 0
       THEN [ a      |-> WithFreeList(a, order,
                             SwapRemove(FreeList(a, order), pos)),
              to     |-> "free_order",
              offset |-> Min(offset, buddy_offset), order |-> order + 1 ]
       ELSE [ a      |-> WithFreeList(a, order,
                             Append(FreeList(a, order), offset)),
              to     |-> "unlock", offset |-> offset, order |-> order ]

\* a thread calls an entry point
step_call(t) ==
    /\ threads[t].pc = "idle"
    /\ SumOver([u \in Threads |-> threads[u].n], Threads) < MaxStepCalls
    /\ \E call \in StepCalls :
           threads' = [threads EXCEPT ![t] =
                          [pc |-> "wait", n |-> @.n + 1, call |-> call]]
    /\ last' = [op |-> "call", thread |-> t]
    /\ UNCHANGED <<locks, BuddyVars, PoolVars, BeltVars, CacheVars>>

\* the entry point gets the registry's mutex
step_lock(t) ==
    /\ threads[t].pc = "wait"
    /\ lock_free(StepLockOf(threads[t].call))
    /\ locks' = [locks EXCEPT ![StepLockOf(threads[t].call)] = t]
    /\ threads' = [threads EXCEPT ![t] =
           [ pc |-> "entered", n |-> @.n, call |-> @.call,
             pre |-> IF StepLockOf(@.call) = "ALLOCATORS"
                     THEN ALLOCATORS ELSE STAGING_BELTS ]]
    /\ last' = [op |-> "lock", thread |-> t]
    /\ UNCHANGED <<BuddyVars, PoolVars, BeltVars, CacheVars>>

\* buddy_allocator_allocate up to the call of allocate_order
step_allocate(t) ==
    LET me == threads[t] IN
    /\ me.pc = "entered"
    /\ me.call.op = "allocate"
    /\ IF me.call.id \notin DOMAIN ALLOCATORS
       THEN threads' = [threads EXCEPT ![t] =
                [ pc |-> "unlock", n |-> me.n, call |-> me.call, pre |-> me.pre,
                  ret |-> [offset |-> 0, size |-> 0] ]]
       ELSE LET a == ALLOCATORS[me.call.id]
                k == trailing_zeros(
                         next_power_of_two(Max(me.call.size, a.min_block_size))
                             \div a.min_block_size)
            IN IF k > a.max_order
               THEN threads' = [threads EXCEPT ![t] =
                        [ pc |-> "unlock", n |-> me.n, call |-> me.call,
                          pre |-> me.pre, ret |-> [offset |-> 0, size |-> 0] ]]
               ELSE threads' = [threads EXCEPT ![t] =
                        [ pc |-> "allocate_order", n |-> me.n, call |-> me.call,
                          pre |-> me.pre, k |-> k, j |-> k ]]
    /\ last' = [op |-> "step", thread |-> t]
    /\ UNCHANGED <<locks, BuddyVars, PoolVars, BeltVars, CacheVars>>

\* allocate_order is entered at order j
step_allocate_order(t) ==
    LET me == threads[t]
        d  == descend(ALLOCATORS[me.call.id], me.j)
    IN
    /\ me.pc = "allocate_order"
    /\ ALLOCATORS' = [ALLOCATORS EXCEPT ![me.call.id] = d.a]
    /\ threads' = [threads EXCEPT ![t] =
           IF d.to = "none"
           THEN [ pc |-> "unlock", n |-> me.n, call |-> me.call, pre |-> me.pre,
                  ret |-> [offset |-> 0, size |-> 0] ]
           ELSE [ pc |-> d.to, n |-> me.n, call |-> me.call, pre |-> me.pre,
                  k |-> me.k, j |-> d.j, offset |-> d.offset ]]
    /\ last' = [op |-> "step", thread |-> t]
    /\ UNCHANGED <<locks, NEXT_ALLOCATOR_ID, PoolVars, BeltVars, CacheVars>>

\* the frame of order j has its block: the one below it splits, and the
\* frame of order k hands the block to allocate, which records it
step_unwind(t) ==
    LET me == threads[t]
        a  == ALLOCATORS[me.call.id]
    IN
    /\ me.pc = "unwind"
    /\ IF me.j > me.k
       THEN /\ ALLOCATORS' = [ALLOCATORS EXCEPT ![me.call.id] =
                                 unwind(a, me.j - 1, me.offset)]
            /\ threads' = [threads EXCEPT ![t].j = me.j - 1]
       ELSE /\ ALLOCATORS' = [ALLOCATORS EXCEPT ![me.call.id].allocated =
                                 MapInsert(@, me.offset, me.k)]
            /\ threads' = [threads EXCEPT ![t] =
                   [ pc |-> "unlock", n |-> me.n, call |-> me.call,
                     pre |-> me.pre,
                     ret |-> [ offset |-> me.offset,
                               size |-> next_power_of_two(
                                   Max(me.call.size, a.min_block_size)) ] ]]
    /\ last' = [op |-> "step", thread |-> t]
    /\ UNCHANGED <<locks, NEXT_ALLOCATOR_ID, PoolVars, BeltVars, CacheVars>>

\* buddy_allocator_free up to the call of free_order
step_free(t) ==
    LET me == threads[t] IN
    /\ me.pc = "entered"
    /\ me.call.op = "free"
    /\ IF \/ me.call.id \notin DOMAIN ALLOCATORS
          \/ me.call.offset \notin DOMAIN ALLOCATORS[me.call.id].allocated
       THEN /\ threads' = [threads EXCEPT ![t] =
                   [ pc |-> "unlock", n |-> me.n, call |-> me.call,
                     pre |-> me.pre, ret |-> [code |-> 0] ]]
            /\ UNCHANGED ALLOCATORS
       ELSE /\ ALLOCATORS' = [ALLOCATORS EXCEPT ![me.call.id].allocated =
                                 MapRemove(@, me.call.offset)]
            /\ threads' = [threads EXCEPT ![t] =
                   [ pc |-> "free_order", n |-> me.n, call |-> me.call,
                     pre |-> me.pre, offset |-> me.call.offset,
                     order |-> ALLOCATORS[me.call.id].allocated[me.call.offset] ]]
    /\ last' = [op |-> "step", thread |-> t]
    /\ UNCHANGED <<locks, NEXT_ALLOCATOR_ID, PoolVars, BeltVars, CacheVars>>

\* free_order is entered with offset and order
step_free_order(t) ==
    LET me == threads[t]
        m  == merge(ALLOCATORS[me.call.id], me.offset, me.order)
    IN
    /\ me.pc = "free_order"
    /\ ALLOCATORS' = [ALLOCATORS EXCEPT ![me.call.id] = m.a]
    /\ threads' = [threads EXCEPT ![t] =
           IF m.to = "unlock"
           THEN [ pc |-> "unlock", n |-> me.n, call |-> me.call, pre |-> me.pre,
                  ret |-> [code |-> 1] ]
           ELSE [ pc |-> "free_order", n |-> me.n, call |-> me.call,
                  pre |-> me.pre, offset |-> m.offset, order |-> m.order ]]
    /\ last' = [op |-> "step", thread |-> t]
    /\ UNCHANGED <<locks, NEXT_ALLOCATOR_ID, PoolVars, BeltVars, CacheVars>>

\* staging_belt_write has no loop of its own besides the scan of position
step_write(t) ==
    LET me == threads[t] IN
    /\ me.pc = "entered"
    /\ me.call.op = "write"
    /\ IF me.call.id \in DOMAIN STAGING_BELTS
       THEN LET w == write(STAGING_BELTS[me.call.id], me.call.size) IN
            /\ STAGING_BELTS' = [STAGING_BELTS EXCEPT ![me.call.id] = w.belt]
            /\ belt_log' = [belt_log EXCEPT
                   ![me.call.id].writes = Append(@, w.ret),
                   ![me.call.id].issued = @ \cup {w.ret.buffer_handle}]
            /\ threads' = [threads EXCEPT ![t] =
                   [ pc |-> "unlock", n |-> me.n, call |-> me.call,
                     pre |-> me.pre, ret |-> w.ret ]]
       ELSE /\ UNCHANGED <<STAGING_BELTS, belt_log>>
            /\ threads' = [threads EXCEPT ![t] =
                   [ pc |-> "unlock", n |-> me.n, call |-> me.call,
                     pre |-> me.pre, ret |-> InvalidWrite ]]
    /\ last' = [op |-> "step", thread |-> t]
    /\ UNCHANGED <<locks, NEXT_BELT_ID, belt_writes, BuddyVars, PoolVars, CacheVars>>

\* staging_belt_finish up to the first loop: drain(..) takes the chunks out
\* of active_chunks
step_finish(t) ==
    LET me == threads[t] IN
    /\ me.pc = "entered"
    /\ me.call.op = "finish"
    /\ IF me.call.id \in DOMAIN STAGING_BELTS
       THEN /\ STAGING_BELTS' = [STAGING_BELTS EXCEPT
                                    ![me.call.id].active_chunks = <<>>]
            /\ belt_log' = [belt_log EXCEPT ![me.call.id].writes = <<>>]
            /\ threads' = [threads EXCEPT ![t] =
                   [ pc |-> "drain", n |-> me.n, call |-> me.call,
                     pre |-> me.pre,
                     drained |-> STAGING_BELTS[me.call.id].active_chunks ]]
       ELSE /\ UNCHANGED <<STAGING_BELTS, belt_log>>
            /\ threads' = [threads EXCEPT ![t] =
                   [ pc |-> "unlock", n |-> me.n, call |-> me.call,
                     pre |-> me.pre, ret |-> [code |-> 0] ]]
    /\ last' = [op |-> "step", thread |-> t]
    /\ UNCHANGED <<locks, NEXT_BELT_ID, belt_writes, BuddyVars, PoolVars, CacheVars>>

\* one turn of the for loop: the chunk is reset and sent
step_drain(t) ==
    LET me == threads[t] IN
    /\ me.pc = "drain"
    /\ IF me.drained # <<>>
       THEN /\ STAGING_BELTS' = [STAGING_BELTS EXCEPT ![me.call.id].channel =
                                    Append(@, [Head(me.drained) EXCEPT !.offset = 0])]
            /\ threads' = [threads EXCEPT ![t].drained = Tail(@)]
       ELSE /\ UNCHANGED STAGING_BELTS
            /\ threads' = [threads EXCEPT ![t] =
                   [ pc |-> "recv", n |-> me.n, call |-> me.call,
                     pre |-> me.pre ]]
    /\ last' = [op |-> "step", thread |-> t]
    /\ UNCHANGED <<locks, NEXT_BELT_ID, belt_log, belt_writes, BuddyVars, PoolVars, CacheVars>>

\* one turn of the while loop: try_recv yields a chunk, which is pushed, or
\* Err, which ends the loop
step_recv(t) ==
    LET me == threads[t]
        b  == STAGING_BELTS[me.call.id]
    IN
    /\ me.pc = "recv"
    /\ IF b.channel # <<>>
       THEN /\ STAGING_BELTS' = [STAGING_BELTS EXCEPT ![me.call.id] =
                   [b EXCEPT !.free_chunks = Append(@, Head(b.channel)),
                             !.channel = Tail(@)]]
            /\ UNCHANGED threads
       ELSE /\ UNCHANGED STAGING_BELTS
            /\ threads' = [threads EXCEPT ![t] =
                   [ pc |-> "unlock", n |-> me.n, call |-> me.call,
                     pre |-> me.pre, ret |-> [code |-> 0] ]]
    /\ last' = [op |-> "step", thread |-> t]
    /\ UNCHANGED <<locks, NEXT_BELT_ID, belt_log, belt_writes, BuddyVars, PoolVars, CacheVars>>

\* the guard is dropped and the call returns
step_unlock(t) ==
    LET me == threads[t] IN
    /\ me.pc = "unlock"
    /\ locks' = [locks EXCEPT ![StepLockOf(me.call)] = 0]
    /\ threads' = [threads EXCEPT ![t] = [pc |-> "idle", n |-> me.n]]
    /\ last' = [ op |-> "return", thread |-> t, call |-> me.call,
                 pre |-> me.pre, ret |-> me.ret ]
    /\ UNCHANGED <<BuddyVars, PoolVars, BeltVars, CacheVars>>

\* what thread t does next
step(t) ==
    \/ step_call(t)
    \/ step_lock(t)
    \/ step_allocate(t)
    \/ step_allocate_order(t)
    \/ step_unwind(t)
    \/ step_free(t)
    \/ step_free_order(t)
    \/ step_write(t)
    \/ step_finish(t)
    \/ step_drain(t)
    \/ step_recv(t)
    \/ step_unlock(t)

NextSteps == \E t \in Threads : step(t)

\* the threads start on an allocator of 1024 bytes in blocks of 64 and on a
\* belt of chunks of 1024 bytes: the state after
\* buddy_allocator_create(1024, 64) and staging_belt_create(1024)
InitSteps ==
    /\ ALLOCATORS = MapInsert(EmptyMap, 1, New(1024, 64))
    /\ NEXT_ALLOCATOR_ID = 2
    /\ BUFFER_POOL = PoolNew(DefaultConfig)
    /\ clock = 0
    /\ STAGING_BELTS = MapInsert(EmptyMap, 1, BeltNew(1024))
    /\ NEXT_BELT_ID = 2
    /\ belt_log = MapInsert(EmptyMap, 1, [writes |-> <<>>, issued |-> {}])
    /\ belt_writes = 0
    /\ PIPELINE_CACHE = CacheNew
    /\ cache_log = [render |-> EmptyMap, compute |-> EmptyMap]
    /\ threads = [t \in Threads |-> IdleThread]
    /\ locks = [m \in Locks |-> 0]
    /\ last = [op |-> "init"]

\* a thread that is in a call, or about to get the mutex, is scheduled
\* again; nothing makes a thread call
SpecSteps ==
    /\ InitSteps
    /\ [][NextSteps]_vars
    /\ \A t \in Threads : WF_vars(threads[t].pc # "idle" /\ step(t))

(***************************************************************************)
(* The locks of the registries.  buddy_allocator_create and                *)
(* staging_belt_create lock the registry map and then the next-id counter, *)
(* read the counter, increment it and insert under the id read; every      *)
(* other entry point locks the registry map alone.  The guards are dropped *)
(* when the function returns.  ids[t] are the ids thread t was given.      *)
(***************************************************************************)
LockCalls ==
    { [op |-> "buddy_allocator_create"], [op |-> "staging_belt_create"],
      [op |-> "buddy_allocator_destroy", id |-> 1],
      [op |-> "staging_belt_destroy", id |-> 1] }

\* the mutexes a call locks, in the order in which it locks them
LocksOf(call) ==
    IF call.op = "buddy_allocator_create"
    THEN <<"ALLOCATORS", "NEXT_ALLOCATOR_ID">>
    ELSE IF call.op = "staging_belt_create"
    THEN <<"STAGING_BELTS", "NEXT_BELT_ID">>
    ELSE IF call.op = "buddy_allocator_destroy"
    THEN <<"ALLOCATORS">>
    ELSE <<"STAGING_BELTS">>

\* a return that leaves the guard of the next-id counter behind
drop_guards_leak(l, t) ==
    [ m \in Locks |->
        IF l[m] = t /\ m \notin {"NEXT_ALLOCATOR_ID", "NEXT_BELT_ID"}
        THEN 0 ELSE l[m] ]

\* the guards of thread t go out of scope
drop_guards(l, t) == [m \in Locks |-> IF l[m] = t THEN 0 ELSE l[m]]

\* a thread calls an entry point; BuddyAllocator::new runs before any lock
lock_call(t) ==
    /\ threads[t].pc = "idle"
    /\ SumOver([u \in Threads |-> threads[u].n], Threads) < MaxLockCalls
    /\ \E call \in LockCalls :
           threads' = [threads EXCEPT ![t] =
                          [ pc |-> "lock", n |-> @.n + 1, ids |-> @.ids,
                            call |-> call, todo |-> LocksOf(call), id |-> 0 ]]
    /\ last' = [op |-> "call", thread |-> t]
    /\ UNCHANGED <<locks, BuddyVars, PoolVars, BeltVars, CacheVars>>

\* the thread gets the next mutex of its call
lock_take(t) ==
    LET me == threads[t] IN
    /\ me.pc = "lock"
    /\ lock_free(Head(me.todo))
    /\ locks' = [locks EXCEPT ![Head(me.todo)] = t]
    /\ threads' = [threads EXCEPT
           ![t].todo = Tail(@),
           ![t].pc = IF Len(me.todo) > 1 THEN "lock"
                     ELSE IF me.call.op \in {"buddy_allocator_create",
                                             "staging_belt_create"}
                     THEN "read" ELSE "remove"]
    /\ last' = [op |-> "lock", thread |-> t]
    /\ UNCHANGED <<BuddyVars, PoolVars, BeltVars, CacheVars>>

\* let id = *next_id
lock_read_id(t) ==
    LET me == threads[t] IN
    /\ me.pc = "read"
    /\ threads' = [threads EXCEPT
           ![t].pc = "increment",
           ![t].id = IF me.call.op = "buddy_allocator_create"
                     THEN NEXT_ALLOCATOR_ID ELSE NEXT_BELT_ID]
    /\ last' = [op |-> "step", thread |-> t]
    /\ UNCHANGED <<locks, BuddyVars, PoolVars, BeltVars, CacheVars>>

\* *next_id += 1
lock_increment_id(t) ==
    LET me == threads[t] IN
    /\ me.pc = "increment"
    /\ IF me.call.op = "buddy_allocator_create"
       THEN /\ NEXT_ALLOCATOR_ID' = NEXT_ALLOCATOR_ID + 1
            /\ UNCHANGED NEXT_BELT_ID
       ELSE /\ NEXT_BELT_ID' = NEXT_BELT_ID + 1
            /\ UNCHANGED NEXT_ALLOCATOR_ID
    /\ threads' = [threads EXCEPT ![t].pc = "insert"]
    /\ last' = [op |-> "step", thread |-> t]
    /\ UNCHANGED <<locks, ALLOCATORS, PoolVars, STAGING_BELTS, belt_log,
                   belt_writes, CacheVars>>

\* the new allocator or belt goes into the map under the id read
lock_insert(t) ==
    LET me == threads[t] IN
    /\ me.pc = "insert"
    /\ IF me.call.op = "buddy_allocator_create"
       THEN /\ ALLOCATORS' = MapInsert(ALLOCATORS, me.id, New(1024, 64))
            /\ UNCHANGED <<STAGING_BELTS, belt_log>>
       ELSE /\ STAGING_BELTS' = MapInsert(STAGING_BELTS, me.id, BeltNew(1024))
            /\ belt_log' = MapInsert(belt_log, me.id,
                                     [writes |-> <<>>, issued |-> {}])
            /\ UNCHANGED ALLOCATORS
    /\ threads' = [threads EXCEPT ![t].pc = "return"]
    /\ last' = [op |-> "step", thread |-> t]
    /\ UNCHANGED <<locks, NEXT_ALLOCATOR_ID, PoolVars, NEXT_BELT_ID,
                   belt_writes, CacheVars>>

\* the body of destroy
lock_remove(t) ==
    LET me == threads[t] IN
    /\ me.pc = "remove"
    /\ IF me.call.op = "buddy_allocator_destroy"
       THEN /\ ALLOCATORS' = MapRemove(ALLOCATORS, me.call.id)
            /\ UNCHANGED <<STAGING_BELTS, belt_log>>
       ELSE /\ STAGING_BELTS' = MapRemove(STAGING_BELTS, me.call.id)
            /\ belt_log' = MapRemove(belt_log, me.call.id)
            /\ UNCHANGED ALLOCATORS
    /\ threads' = [threads EXCEPT ![t].pc = "return"]
    /\ last' = [op |-> "step", thread |-> t]
    /\ UNCHANGED <<locks, NEXT_ALLOCATOR_ID, PoolVars, NEXT_BELT_ID,
                   belt_writes, CacheVars>>

\* the call returns: its guards are dropped, and a create hands its id to
\* the caller
lock_return(t) ==
    LET me == threads[t] IN
    /\ me.pc = "return"
    /\ locks' = drop_guards(locks, t)
    /\ threads' = [threads EXCEPT ![t] =
           [ pc |-> "idle", n |-> me.n,
             ids |-> IF me.id # 0
                     THEN me.ids \cup {<<me.call.op, me.id>>} ELSE me.ids ]]
    /\ last' = [ op |-> "return", thread |-> t, call |-> me.call,
                 ret |-> me.id ]
    /\ UNCHANGED <<BuddyVars, PoolVars, BeltVars, CacheVars>>

lock_step(t) ==
    \/ lock_call(t)
    \/ lock_take(t)
    \/ lock_read_id(t)
    \/ lock_increment_id(t)
    \/ lock_insert(t)
    \/ lock_remove(t)
    \/ lock_return(t)

NextLocks == \E t \in Threads : lock_step(t)

InitLocks ==
    /\ ALLOCATORS = EmptyMap
    /\ NEXT_ALLOCATOR_ID = 1
    /\ BUFFER_POOL = PoolNew(DefaultConfig)
    /\ clock = 0
    /\ STAGING_BELTS = EmptyMap
    /\ NEXT_BELT_ID = 1
    /\ belt_log = EmptyMap
    /\ belt_writes = 0
    /\ PIPELINE_CACHE = CacheNew
    /\ cache_log = [render |-> EmptyMap, compute |-> EmptyMap]
    /\ threads = [t \in Threads |-> [pc |-> "idle", n |-> 0, ids |-> {}]]
    /\ locks = [m \in Locks |-> 0]
    /\ last = [op |-> "init"]

\* a thread that is in a call is scheduled again; nothing makes a thread
\* call
SpecLocks ==
    /\ InitLocks
    /\ [][NextLocks]_vars
    /\ \A t \in Threads : WF_vars(threads[t].pc # "idle" /\ lock_step(t))

Next ==
    NextBuddy \/ NextPool \/ NextBelt \/ NextCache \/ NextThreads \/ NextRegistry
        \/ NextSteps \/ NextLocks

Spec == Init /\ [][Next]_vars

(***************************************************************************)
(* Properties of the buddy allocator (checked under SpecBuddy).            *)
(***************************************************************************)
LiveIds == DOMAIN ALLOCATORS

FreshFreeLists(max_order) ==
    [o \in 1..(max_order + 1) |-> IF o = max_order + 1 THEN <<0>> ELSE <<>>]

\* C1: conservation. For every live allocator, after every call, stats()
\* computes free_bytes = size - allocated_bytes without underflow and reports
\* allocated_bytes + free_bytes = size.
C1_Conservation ==
    \A id \in LiveIds :
        LET s == stats(ALLOCATORS[id]) IN
        /\ s.free_bytes # Underflow
        /\ s.allocated_bytes + s.free_bytes = ALLOCATORS[id].size
        /\ (last.op = "stats" /\ last.allocator_id = id) => last.ret = s

\* stats() was called on an allocator that is partly allocated
C1_Witness ==
    /\ last.op = "stats"
    /\ last.allocator_id \in LiveIds
    /\ last.ret.allocated_blocks >= 2
    /\ last.ret.allocated_bytes > 0
    /\ last.ret.free_bytes > 0

\* C2: alignment. Every offset a successful allocate(s) returns is a multiple
\* of next_power_of_two(max(s, min_block_size)), and the block of that size
\* at the offset ends inside the arena.
C2_Alignment ==
    (last.op = "allocate" /\ last.ret.size # 0) =>
        LET a       == ALLOCATORS[last.allocator_id]
            rounded == next_power_of_two(Max(last.size, a.min_block_size))
        IN /\ last.ret.size = rounded
           /\ last.ret.offset % rounded = 0
           /\ last.ret.offset + rounded <= a.size

\* allocate(100) returned a block of 128 bytes that is not the first
C2_Witness ==
    /\ last.op = "allocate"
    /\ last.size = 100
    /\ last.ret.size = 128
    /\ last.ret.offset > 0

\* C3: full coalescence. Whenever every allocation of an allocator has been
\* freed, its free lists hold exactly one block, offset 0 at max_order, as
\* after creation; and create(1024, 64), allocate(100) -> 0,
\* allocate(100) -> 128, free(0), free(128) ends in that state.
C3_FullCoalescence ==
    /\ \A id \in LiveIds :
           LET a == ALLOCATORS[id] IN
           DOMAIN a.allocated = {} =>
               /\ a.free_lists = FreshFreeLists(a.max_order)
               /\ stats(a).allocated_blocks = 0
               /\ stats(a).free_blocks = 1
    /\ LET a0 == New(1024, 64)
           r1 == allocate(a0, 100)
           r2 == allocate(r1.a, 100)
           f1 == free(r2.a, 0)
           f2 == free(f1.a, 128)
       IN /\ r1.res = "ok" /\ r1.offset = 0
          /\ r2.res = "ok" /\ r2.offset = 128
          /\ f1.ok /\ f2.ok
          /\ f2.a.allocated = EmptyMap
          /\ f2.a.free_lists = <<<<>>, <<>>, <<>>, <<>>, <<0>>>>

\* free(128) has just returned true and left the 1024-byte arena empty: the
\* block at 128 existed only because the block at 0 was split off before it
C3_Witness ==
    /\ last.op = "free"
    /\ last.ret = 1
    /\ last.offset = 128
    /\ ALLOCATORS[last.allocator_id].size = 1024
    /\ DOMAIN ALLOCATORS[last.allocator_id].allocated = {}

\* C4: create with an invalid configuration ends in a ConfigurationError
\* result and never in a panic.
C4_CreateFailsCleanly ==
    ( /\ last.op = "create"
      /\ \/ ~is_power_of_two(last.total_size)
         \/ ~is_power_of_two(last.min_block_size)
         \/ last.total_size < last.min_block_size )
    => last.outcome = "ConfigurationError"

\* C5: an allocate that fails (TooLarge or OutOfMemory: the FFI result has
\* size 0) leaves the free lists and the allocated map of every allocator as
\* they were.
C5_FailedAllocateChangesNothing ==
    [][ (last'.op = "allocate" /\ last'.ret.size = 0)
            => ALLOCATORS' = ALLOCATORS ]_vars

\* allocate failed with OutOfMemory on a live allocator
C5_Witness ==
    /\ last.op = "allocate"
    /\ last.res = "OutOfMemory"
    /\ last.allocator_id \in LiveIds
    /\ last.size <= ALLOCATORS[last.allocator_id].size

\* C6: free of an offset that is not a live allocation returns false and
\* changes nothing, and the second of two consecutive free calls on the same
\* offset returns false.
C6_FreeNotLive ==
    [][ /\ ( /\ last'.op = "free"
             /\ last'.allocator_id \in LiveIds
             /\ last'.offset \notin DOMAIN ALLOCATORS[last'.allocator_id].allocated )
          => (last'.ret = 0 /\ ALLOCATORS' = ALLOCATORS)
        /\ ( /\ last.op = "free"
             /\ last'.op = "free"
             /\ last'.allocator_id = last.allocator_id
             /\ last'.offset = last.offset )
          => last'.ret = 0 ]_vars

\* free returned false for an offset that sits on a free list (freed before)
\* while another allocation is live
C6_Witness ==
    /\ last.op = "free"
    /\ last.ret = 0
    /\ last.allocator_id \in LiveIds
    /\ \E o \in 1..Len(ALLOCATORS[last.allocator_id].free_lists) :
           Position(ALLOCATORS[last.allocator_id].free_lists[o], last.offset) # 0
    /\ DOMAIN ALLOCATORS[last.allocator_id].allocated # {}


(***************************************************************************)
(* Properties of the buffer pool (checked under SpecPool).                 *)
(***************************************************************************)
\* entry h of pool p is resident, not in use, and fits acquire(size, usage)
Eligible(p, h, size, usage) ==
    /\ h \in DOMAIN p.buffers
    /\ p.buffers[h].in_use = 0
    /\ p.buffers[h].size >= size
    /\ p.buffers[h].usage = usage

\* C7: exclusivity. A handle acquire returns names an entry that was resident
\* and not in use when the call began, and that is in use when it returns.
C7_PoolExclusivity ==
    [][ (last'.op = "acquire" /\ last'.opt.some) =>
            /\ last'.opt.handle \in DOMAIN BUFFER_POOL.buffers
            /\ BUFFER_POOL.buffers[last'.opt.handle].in_use = 0
            /\ BUFFER_POOL'.buffers[last'.opt.handle].in_use = 1 ]_vars

\* add(5, 1024, 0x80); acquire(512, 0x80) -> 5 with hits = 1; the second
\* acquire(512, 0x80), before release(5), has returned no handle, misses = 1
C7_Witness ==
    /\ last.op = "acquire"
    /\ last.size = 512 /\ last.usage = 128
    /\ ~last.opt.some /\ last.ret = 0
    /\ DOMAIN BUFFER_POOL.buffers = {5}
    /\ BUFFER_POOL.buffers[5].size = 1024
    /\ BUFFER_POOL.buffers[5].usage = 128
    /\ BUFFER_POOL.buffers[5].in_use = 1
    /\ BUFFER_POOL.hits = 1
    /\ BUFFER_POOL.misses = 1

\* C8: acquire hit. Whenever some resident entry is not in use, is at least as
\* large as the request and has the requested usage, acquire returns the
\* handle of such an entry, marks it in use, adds one to hits and leaves
\* misses, total_size and every other entry as they were.
C8_AcquireHit ==
    [][ ( /\ last'.op = "acquire"
          /\ \E h \in DOMAIN BUFFER_POOL.buffers :
                 Eligible(BUFFER_POOL, h, last'.size, last'.usage) )
        => /\ last'.opt.some
           /\ last'.ret = last'.opt.handle
           /\ Eligible(BUFFER_POOL, last'.opt.handle, last'.size, last'.usage)
           /\ DOMAIN BUFFER_POOL'.buffers = DOMAIN BUFFER_POOL.buffers
           /\ BUFFER_POOL'.buffers[last'.opt.handle].in_use = 1
           /\ BUFFER_POOL'.buffers[last'.opt.handle].size =
                  BUFFER_POOL.buffers[last'.opt.handle].size
           /\ BUFFER_POOL'.buffers[last'.opt.handle].usage =
                  BUFFER_POOL.buffers[last'.opt.handle].usage
           /\ \A g \in DOMAIN BUFFER_POOL.buffers \ {last'.opt.handle} :
                  BUFFER_POOL'.buffers[g] = BUFFER_POOL.buffers[g]
           /\ BUFFER_POOL'.hits = BUFFER_POOL.hits + 1
           /\ BUFFER_POOL'.misses = BUFFER_POOL.misses
           /\ BUFFER_POOL'.total_size = BUFFER_POOL.total_size ]_vars

\* acquire(512, u) has returned a 512-byte buffer while another entry stays
\* resident and in use
C8_Witness ==
    /\ last.op = "acquire"
    /\ last.opt.some
    /\ last.size = 512
    /\ BUFFER_POOL.buffers[last.opt.handle].size = 512
    /\ Cardinality(DOMAIN BUFFER_POOL.buffers) = 2
    /\ BUFFER_POOL.hits = 2

C10_Release ==
    [][ /\ last'.op = "release" =>
               IF last'.handle \in DOMAIN BUFFER_POOL.buffers
               THEN /\ last'.handle \in DOMAIN BUFFER_POOL'.buffers
                    /\ BUFFER_POOL'.buffers[last'.handle].in_use = 0
               ELSE BUFFER_POOL' = BUFFER_POOL
        /\ ( /\ last.op = "release"
             /\ last.handle \in DOMAIN BUFFER_POOL.buffers
             /\ last'.op = "acquire"
             /\ last'.size <= BUFFER_POOL.buffers[last.handle].size
             /\ last'.usage = BUFFER_POOL.buffers[last.handle].usage )
          => /\ last'.opt.some
             /\ \/ last'.opt.handle = last.handle
                \/ \E g \in DOMAIN BUFFER_POOL.buffers \ {last.handle} :
                       Eligible(BUFFER_POOL, g, last'.size, last'.usage) ]_vars

\* release has returned a buffer that acquire had handed out
C10_Witness ==
    /\ last.op = "release"
    /\ last.handle \in DOMAIN BUFFER_POOL.buffers
    /\ BUFFER_POOL.buffers[last.handle].in_use = 0
    /\ BUFFER_POOL.hits >= 1
    /\ BUFFER_POOL.buffers[last.handle].last_used > 0

\* sum of the sizes of the entries of p named by S
SizeOf(p, S) == SumOver([h \in S |-> p.buffers[h].size], S)

\* C11: add/remove accounting. add(handle, size, usage) registers the entry
\* as not in use and adds exactly size to total_size; remove of a registered
\* handle unregisters it and subtracts the size recorded for it; remove of an
\* unregistered handle changes nothing.
C11_AddRemoveAccounting ==
    [][ /\ last'.op = "add" =>
               /\ DOMAIN BUFFER_POOL'.buffers =
                      DOMAIN BUFFER_POOL.buffers \cup {last'.handle}
               /\ BUFFER_POOL'.buffers[last'.handle].size = last'.size
               /\ BUFFER_POOL'.buffers[last'.handle].usage = last'.usage
               /\ BUFFER_POOL'.buffers[last'.handle].in_use = 0
               /\ BUFFER_POOL'.total_size = BUFFER_POOL.total_size + last'.size
               /\ \A g \in DOMAIN BUFFER_POOL.buffers \ {last'.handle} :
                      BUFFER_POOL'.buffers[g] = BUFFER_POOL.buffers[g]
        /\ last'.op = "remove" =>
               IF last'.handle \in DOMAIN BUFFER_POOL.buffers
               THEN /\ DOMAIN BUFFER_POOL'.buffers =
                           DOMAIN BUFFER_POOL.buffers \ {last'.handle}
                    /\ BUFFER_POOL'.total_size = BUFFER_POOL.total_size -
                           BUFFER_POOL.buffers[last'.handle].size
                    /\ \A g \in DOMAIN BUFFER_POOL'.buffers :
                           BUFFER_POOL'.buffers[g] = BUFFER_POOL.buffers[g]
               ELSE BUFFER_POOL' = BUFFER_POOL ]_vars

\* remove has unregistered one of two buffers; the other stays, and
\* total_size is its size
C11_Witness ==
    /\ last.op = "remove"
    /\ last.found
    /\ Cardinality(DOMAIN BUFFER_POOL.buffers) = 1
    /\ BUFFER_POOL.total_size = SizeOf(BUFFER_POOL, DOMAIN BUFFER_POOL.buffers)

C13_HitRate ==
    /\ last.op = "pool_stats" =>
           /\ last.ret.hits = BUFFER_POOL.hits
           /\ last.ret.misses = BUFFER_POOL.misses
           /\ last.ret.hit_rate[2] > 0
           /\ IF last.ret.hits + last.ret.misses = 0
              THEN last.ret.hit_rate[1] = 0
              ELSE last.ret.hit_rate[1] * (last.ret.hits + last.ret.misses) =
                       last.ret.hits * last.ret.hit_rate[2]
    /\ last.op = "cache_stats" =>
           /\ last.ret.total_hits = PIPELINE_CACHE.total_hits
           /\ last.ret.total_misses = PIPELINE_CACHE.total_misses
           /\ last.ret.hit_rate[2] > 0
           /\ IF last.ret.total_hits + last.ret.total_misses = 0
              THEN last.ret.hit_rate[1] = 0
              ELSE last.ret.hit_rate[1] *
                       (last.ret.total_hits + last.ret.total_misses) =
                       last.ret.total_hits * last.ret.hit_rate[2]

\* the cache reports two hits, one miss and a rate of 2/3 after a clear
C13_Witness ==
    /\ last.op = "cache_stats"
    /\ last.ret.total_hits = 2
    /\ last.ret.total_misses = 1
    /\ last.ret.hit_rate = <<2, 3>>
    /\ last.ret.render_pipelines = 0
    /\ last.ret.compute_pipelines = 0

\* C14: configure replaces the limits and the timeout only: the resident
\* entries, their in_use flags, total_size, hits and misses are as before,
\* also when the pool holds more than the new limits allow.
C14_ConfigureFrame ==
    [][ last'.op = "configure" =>
            /\ BUFFER_POOL'.config = last'.config
            /\ BUFFER_POOL'.buffers = BUFFER_POOL.buffers
            /\ BUFFER_POOL'.total_size = BUFFER_POOL.total_size
            /\ BUFFER_POOL'.hits = BUFFER_POOL.hits
            /\ BUFFER_POOL'.misses = BUFFER_POOL.misses ]_vars

\* configure has installed limits below the occupancy: total_size is over
\* max_total_size, the count is at max_buffers, and an entry is idle for
\* longer than the new timeout
C14_Witness ==
    /\ last.op = "configure"
    /\ BUFFER_POOL.config = last.config
    /\ BUFFER_POOL.total_size > BUFFER_POOL.config.max_total_size
    /\ Cardinality(DOMAIN BUFFER_POOL.buffers) >= BUFFER_POOL.config.max_buffers
    /\ \E h \in DOMAIN BUFFER_POOL.buffers :
           /\ BUFFER_POOL.buffers[h].in_use = 0
           /\ clock - BUFFER_POOL.buffers[h].last_used >
                  BUFFER_POOL.config.eviction_timeout_ms

\* the buffer handles of a Vec of chunks
HandlesOf(chunks) == { chunks[i].buffer_handle : i \in 1..Len(chunks) }

\* the chunk of a Vec of chunks that carries handle h
ChunkOf(chunks, h) ==
    chunks[CHOOSE i \in 1..Len(chunks) : chunks[i].buffer_handle = h]

\* no active chunk of b has room for size more bytes
NoRoom(b, size) ==
    \A i \in 1..Len(b.active_chunks) :
        b.active_chunks[i].offset + size > b.active_chunks[i].capacity

\* the step is a write on a belt the registry holds
BeltWriteStep == last'.op = "belt_write" /\ last'.belt \in DOMAIN STAGING_BELTS

\* C15: staging belt capacity. A write of at most chunk_size bytes returns a
\* region with offset + size <= chunk_size, the capacity of the chunk that
\* buffer_handle names; a write lands in a chunk that was active only if that
\* chunk's offset + size <= capacity, and otherwise in a chunk that was not
\* active, at offset 0.
C15_WriteWithinCapacity ==
    [][ BeltWriteStep =>
            LET b    == STAGING_BELTS[last'.belt]
                r    == last'.ret
                size == last'.size
                c    == ChunkOf(STAGING_BELTS'[last'.belt].active_chunks,
                                r.buffer_handle)
            IN  /\ r.size = size
                /\ r.buffer_handle \in
                       HandlesOf(STAGING_BELTS'[last'.belt].active_chunks)
                /\ size <= b.chunk_size =>
                       /\ c.capacity = b.chunk_size
                       /\ r.offset + r.size <= b.chunk_size
                /\ IF r.buffer_handle \in HandlesOf(b.active_chunks)
                   THEN LET old == ChunkOf(b.active_chunks, r.buffer_handle) IN
                        /\ old.offset + size <= old.capacity
                        /\ r.offset = old.offset
                   ELSE r.offset = 0 ]_vars

\* a write has filled the rest of an active chunk exactly, and the belt also
\* holds a chunk an oversized write left with its offset past the capacity
C15_Witness ==
    /\ last.op = "belt_write"
    /\ last.from = "active"
    /\ last.ret.offset > 0
    /\ last.belt \in DOMAIN STAGING_BELTS
    /\ last.ret.offset + last.ret.size = STAGING_BELTS[last.belt].chunk_size
    /\ \E i \in 1..Len(STAGING_BELTS[last.belt].active_chunks) :
           STAGING_BELTS[last.belt].active_chunks[i].offset >
               STAGING_BELTS[last.belt].active_chunks[i].capacity

\* the regions of one frame: for one buffer_handle the first starts at 0,
\* each next one starts where the one before it ended
FrameContiguous(ws) ==
    \A j \in 1..Len(ws) :
        LET earlier == { i \in 1..(j - 1) :
                           ws[i].buffer_handle = ws[j].buffer_handle } IN
        /\ earlier = {} => ws[j].offset = 0
        /\ \A i \in earlier :
               /\ ws[i].offset + ws[i].size <= ws[j].offset
               /\ (\A k \in earlier : k <= i) =>
                      ws[j].offset = ws[i].offset + ws[i].size

\* C16: write returns the offset the chosen chunk had before the call and
\* advances that chunk's offset by exactly size, so the regions returned for
\* one buffer_handle between two finish calls are contiguous in call order
\* and do not overlap.
C16_ContiguousRegions ==
    [][ BeltWriteStep =>
            LET b   == STAGING_BELTS[last'.belt]
                r   == last'.ret
                pre == IF r.buffer_handle \in HandlesOf(b.active_chunks)
                       THEN ChunkOf(b.active_chunks, r.buffer_handle).offset
                       ELSE 0
            IN  /\ r.offset = pre
                /\ ChunkOf(STAGING_BELTS'[last'.belt].active_chunks,
                           r.buffer_handle).offset = pre + last'.size
                /\ FrameContiguous(belt_log'[last'.belt].writes) ]_vars

\* write(256), write(256) on a fresh belt of 1024 returned offsets 0 and 256
C16_Witness ==
    /\ last.op = "belt_write"
    /\ last.belt \in DOMAIN STAGING_BELTS
    /\ STAGING_BELTS[last.belt].chunk_size = 1024
    /\ STAGING_BELTS[last.belt].free_chunks = <<>>
    /\ belt_log[last.belt].writes =
           << [buffer_handle |-> 1, offset |-> 0, size |-> 256],
              [buffer_handle |-> 1, offset |-> 256, size |-> 256] >>

\* C17: new-chunk allocation. When no active chunk has room and the free
\* list is empty, write creates a chunk whose buffer_handle is greater than
\* every handle the belt returned before, hence not the handle of an active
\* chunk, with capacity chunk_size; it returns offset 0 and active_chunks
\* grows by one.
C17_NewChunk ==
    [][ ( /\ BeltWriteStep
          /\ NoRoom(STAGING_BELTS[last'.belt], last'.size)
          /\ STAGING_BELTS[last'.belt].free_chunks = <<>> ) =>
            LET b  == STAGING_BELTS[last'.belt]
                nb == STAGING_BELTS'[last'.belt]
                r  == last'.ret
            IN  /\ \A h \in belt_log[last'.belt].issued : r.buffer_handle > h
                /\ r.buffer_handle \notin HandlesOf(b.active_chunks)
                /\ r.offset = 0
                /\ Len(nb.active_chunks) = Len(b.active_chunks) + 1
                /\ nb.active_chunks[Len(nb.active_chunks)].buffer_handle =
                       r.buffer_handle
                /\ nb.active_chunks[Len(nb.active_chunks)].capacity = b.chunk_size
                /\ \A i \in 1..Len(b.active_chunks) :
                       nb.active_chunks[i] = b.active_chunks[i] ]_vars

\* create(1024); write(512) -> 0; write(512) -> 512; write(1) -> offset 0 on
\* handle 2, two active chunks
C17_Witness ==
    /\ last.op = "belt_write"
    /\ last.from = "new"
    /\ last.belt \in DOMAIN STAGING_BELTS
    /\ STAGING_BELTS[last.belt].chunk_size = 1024
    /\ Len(STAGING_BELTS[last.belt].active_chunks) = 2
    /\ belt_log[last.belt].writes =
           << [buffer_handle |-> 1, offset |-> 0, size |-> 512],
              [buffer_handle |-> 1, offset |-> 512, size |-> 512],
              [buffer_handle |-> 2, offset |-> 0, size |-> 1] >>

\* C18: when finish returns, active_chunks is empty, the free list holds
\* every chunk that was free before as it was and every chunk that was active
\* before with offset 0, and nothing is left in the recycle channel.
C18_Finish ==
    [][ (last'.op = "belt_finish" /\ last'.belt \in DOMAIN STAGING_BELTS) =>
            LET b  == STAGING_BELTS[last'.belt]
                nb == STAGING_BELTS'[last'.belt]
            IN  /\ nb.active_chunks = <<>>
                /\ nb.channel = <<>>
                /\ \A i \in 1..Len(b.free_chunks) :
                       \E j \in 1..Len(nb.free_chunks) :
                           nb.free_chunks[j] = b.free_chunks[i]
                /\ \A i \in 1..Len(b.active_chunks) :
                       \E j \in 1..Len(nb.free_chunks) :
                           nb.free_chunks[j] =
                               [b.active_chunks[i] EXCEPT !.offset = 0] ]_vars

\* finish has returned on a belt that had one free chunk and one active
\* chunk: both are free with offset 0
C18_Witness ==
    /\ last.op = "belt_finish"
    /\ last.was_free = 1
    /\ last.was_active = 1
    /\ last.belt \in DOMAIN STAGING_BELTS
    /\ STAGING_BELTS[last.belt].active_chunks = <<>>
    /\ Len(STAGING_BELTS[last.belt].free_chunks) = 2
    /\ \A i \in 1..2 : STAGING_BELTS[last.belt].free_chunks[i].offset = 0

\* C19: recycling. A write that needs a chunk while the free list is not
\* empty takes a chunk of the free list: the handle was returned in an
\* earlier frame, the offset returned is 0 and no new buffer id is issued; a
\* new id is issued only when the free list is empty.
C19_Recycle ==
    [][ BeltWriteStep =>
            LET b  == STAGING_BELTS[last'.belt]
                nb == STAGING_BELTS'[last'.belt]
                r  == last'.ret
            IN  /\ ( NoRoom(b, last'.size) /\ b.free_chunks # <<>> ) =>
                       /\ r.buffer_handle \in HandlesOf(b.free_chunks)
                       /\ r.buffer_handle \in belt_log[last'.belt].issued
                       /\ \A i \in 1..Len(belt_log[last'.belt].writes) :
                              belt_log[last'.belt].writes[i].buffer_handle #
                                  r.buffer_handle
                       /\ r.offset = 0
                       /\ Len(nb.free_chunks) = Len(b.free_chunks) - 1
                       /\ r.buffer_handle \notin HandlesOf(nb.free_chunks)
                /\ nb.next_buffer_id # b.next_buffer_id =>
                       /\ b.free_chunks = <<>>
                       /\ NoRoom(b, last'.size)
                       /\ r.buffer_handle = b.next_buffer_id ]_vars

\* write(512); finish(); write(512): the second write returned handle 1 again
\* at offset 0, and the belt has issued one id only
C19_Witness ==
    /\ last.op = "belt_write"
    /\ last.from = "free"
    /\ last.belt \in DOMAIN STAGING_BELTS
    /\ last.ret = [buffer_handle |-> 1, offset |-> 0, size |-> 512]
    /\ belt_log[last.belt].issued = {1}
    /\ STAGING_BELTS[last.belt].next_buffer_id = 2
    /\ STAGING_BELTS[last.belt].free_chunks = <<>>

\* C20: a write of more than chunk_size bytes is not satisfied: the belt is
\* as before, no region past a chunk's capacity is returned and every chunk
\* keeps offset <= capacity.
C20_OversizedRejected ==
    [][ ( BeltWriteStep /\ last'.size > STAGING_BELTS[last'.belt].chunk_size ) =>
            LET b  == STAGING_BELTS[last'.belt]
                nb == STAGING_BELTS'[last'.belt]
                r  == last'.ret
            IN  /\ nb = b
                /\ r.offset + r.size <= b.chunk_size
                /\ \A i \in 1..Len(nb.active_chunks) :
                       nb.active_chunks[i].offset <= nb.active_chunks[i].capacity ]_vars

\* the calls on the cache, by the map they work on
RenderOps == {"lookup_render", "insert_render", "remove_render"}
ComputeOps == {"lookup_compute", "insert_compute", "remove_compute"}

\* the map of cache c that the call named op works on
MapOf(c, op) ==
    IF op \in RenderOps THEN c.render_pipelines ELSE c.compute_pipelines

\* the map of cache c that the call named op does not work on
OtherMapOf(c, op) ==
    IF op \in RenderOps THEN c.compute_pipelines ELSE c.render_pipelines

\* C21: lookup counters. A lookup of a hash present in its map adds one to
\* that entry's hit_count and one to total_hits, returns the entry's handle
\* and leaves total_misses alone; a lookup of an absent hash adds one to
\* total_misses, returns none and leaves total_hits and both maps, every
\* hit_count included, as they were.
C21_LookupCounters ==
    [][ last'.op \in {"lookup_render", "lookup_compute"} =>
            LET m  == MapOf(PIPELINE_CACHE, last'.op)
                nm == MapOf(PIPELINE_CACHE', last'.op)
                h  == last'.hash
            IN  IF h \in DOMAIN m
                THEN /\ DOMAIN nm = DOMAIN m
                     /\ nm[h] = [m[h] EXCEPT !.hit_count = @ + 1]
                     /\ \A g \in DOMAIN m \ {h} : nm[g] = m[g]
                     /\ PIPELINE_CACHE'.total_hits = PIPELINE_CACHE.total_hits + 1
                     /\ PIPELINE_CACHE'.total_misses = PIPELINE_CACHE.total_misses
                     /\ last'.opt = Some(m[h].handle)
                     /\ last'.ret = m[h].handle
                ELSE /\ PIPELINE_CACHE'.total_misses =
                            PIPELINE_CACHE.total_misses + 1
                     /\ PIPELINE_CACHE'.total_hits = PIPELINE_CACHE.total_hits
                     /\ PIPELINE_CACHE'.render_pipelines =
                            PIPELINE_CACHE.render_pipelines
                     /\ PIPELINE_CACHE'.compute_pipelines =
                            PIPELINE_CACHE.compute_pipelines
                     /\ last'.opt = None ]_vars

\* a render lookup has hit an entry for the second time after one miss
C21_Witness ==
    /\ last.op = "lookup_render"
    /\ last.opt.some
    /\ last.hash \in DOMAIN PIPELINE_CACHE.render_pipelines
    /\ PIPELINE_CACHE.render_pipelines[last.hash].hit_count = 2
    /\ PIPELINE_CACHE.total_hits = 2
    /\ PIPELINE_CACHE.total_misses = 1

\* C22: insert/lookup round trip. From an insert of (h, p) in a map until the
\* next insert or remove of h in that map or the next clear, every lookup of
\* h in that map returns p; an insert on a hash already present replaces the
\* handle and sets the entry's hit_count to 0, and no insert changes
\* total_hits or total_misses.
C22_InsertLookup ==
    [][ /\ last'.op \in {"lookup_render", "lookup_compute"} =>
               LET log == IF last'.op = "lookup_render"
                          THEN cache_log.render ELSE cache_log.compute
               IN  last'.hash \in DOMAIN log =>
                       /\ last'.opt = Some(log[last'.hash])
                       /\ last'.ret = log[last'.hash]
        /\ last'.op \in {"insert_render", "insert_compute"} =>
               LET m  == MapOf(PIPELINE_CACHE, last'.op)
                   nm == MapOf(PIPELINE_CACHE', last'.op)
               IN  /\ DOMAIN nm = DOMAIN m \cup {last'.hash}
                   /\ nm[last'.hash].handle = last'.handle
                   /\ nm[last'.hash].hit_count = 0
                   /\ \A g \in DOMAIN m \ {last'.hash} : nm[g] = m[g]
                   /\ PIPELINE_CACHE'.total_hits = PIPELINE_CACHE.total_hits
                   /\ PIPELINE_CACHE'.total_misses = PIPELINE_CACHE.total_misses ]_vars

\* an insert has replaced a render entry that had been hit twice by an entry
\* with the handle given and hit_count 0; total_hits is still 2
C22_Witness ==
    /\ last.op = "insert_render"
    /\ last.old_hits = 2
    /\ PIPELINE_CACHE.render_pipelines[last.hash].handle = last.handle
    /\ PIPELINE_CACHE.render_pipelines[last.hash].hit_count = 0
    /\ cache_log.render[last.hash] = last.handle
    /\ PIPELINE_CACHE.total_hits = 2

\* C23: render/compute independence. An insert, lookup or remove on one map
\* leaves the other map as it was, entry for entry; a hash inserted in the
\* render map only is a miss for lookup_compute, and vice versa.
C23_Independence ==
    [][ last'.op \in RenderOps \cup ComputeOps =>
            /\ OtherMapOf(PIPELINE_CACHE', last'.op) =
                   OtherMapOf(PIPELINE_CACHE, last'.op)
            /\ ( /\ last'.op \in {"lookup_render", "lookup_compute"}
                 /\ last'.hash \notin DOMAIN MapOf(PIPELINE_CACHE, last'.op) ) =>
                   /\ last'.opt = None
                   /\ last'.ret = 0 ]_vars

\* lookup_compute has missed on a hash the render map holds, and the render
\* entry has no hit
C23_Witness ==
    /\ last.op = "lookup_compute"
    /\ last.opt = None
    /\ last.hash \in DOMAIN PIPELINE_CACHE.render_pipelines
    /\ PIPELINE_CACHE.render_pipelines[last.hash].hit_count = 0
    /\ PIPELINE_CACHE.compute_pipelines = EmptyMap
    /\ PIPELINE_CACHE.total_misses = 1
    /\ PIPELINE_CACHE.total_hits = 0

\* C24: remove_render / remove_compute return 1 exactly when the hash was in
\* that map; afterwards the hash is not in the map, so a lookup of it misses;
\* on an absent hash they return 0 and change nothing.
C24_Remove ==
    [][ /\ last'.op \in {"remove_render", "remove_compute"} =>
               LET m  == MapOf(PIPELINE_CACHE, last'.op)
                   nm == MapOf(PIPELINE_CACHE', last'.op)
               IN  /\ last'.ret = 1 <=> last'.hash \in DOMAIN m
                   /\ last'.ret \in {0, 1}
                   /\ last'.hash \notin DOMAIN nm
                   /\ \A g \in DOMAIN m \ {last'.hash} :
                          g \in DOMAIN nm /\ nm[g] = m[g]
                   /\ last'.hash \notin DOMAIN m =>
                          PIPELINE_CACHE' = PIPELINE_CACHE
                   /\ PIPELINE_CACHE'.total_hits = PIPELINE_CACHE.total_hits
                   /\ PIPELINE_CACHE'.total_misses = PIPELINE_CACHE.total_misses
        /\ ( /\ last'.op \in {"lookup_render", "lookup_compute"}
             /\ last'.hash \notin
                    DOMAIN (IF last'.op = "lookup_render"
                            THEN cache_log.render ELSE cache_log.compute) ) =>
               last'.opt = None ]_vars

\* remove_compute has returned 1 and the hash is gone from the compute map,
\* which still holds the other hash; the render map still holds this one
C24_Witness ==
    /\ last.op = "remove_compute"
    /\ last.ret = 1
    /\ last.hash \notin DOMAIN PIPELINE_CACHE.compute_pipelines
    /\ PIPELINE_CACHE.compute_pipelines # EmptyMap
    /\ last.hash \in DOMAIN PIPELINE_CACHE.render_pipelines

\* C25: clear empties the render map and the compute map and leaves
\* total_hits and total_misses as they were; until the next insert every
\* lookup misses.
C25_Clear ==
    [][ /\ last'.op = "cache_clear" =>
               /\ PIPELINE_CACHE'.render_pipelines = EmptyMap
               /\ PIPELINE_CACHE'.compute_pipelines = EmptyMap
               /\ PIPELINE_CACHE'.total_hits = PIPELINE_CACHE.total_hits
               /\ PIPELINE_CACHE'.total_misses = PIPELINE_CACHE.total_misses
        /\ ( /\ last'.op \in {"lookup_render", "lookup_compute"}
             /\ cache_log = [render |-> EmptyMap, compute |-> EmptyMap] ) =>
               /\ last'.opt = None
               /\ last'.ret = 0 ]_vars

\* clear has emptied a cache of three entries that had counted a hit and a
\* miss
C25_Witness ==
    /\ last.op = "cache_clear"
    /\ last.cleared = 3
    /\ PIPELINE_CACHE.render_pipelines = EmptyMap
    /\ PIPELINE_CACHE.compute_pipelines = EmptyMap
    /\ PIPELINE_CACHE.total_hits = 1
    /\ PIPELINE_CACHE.total_misses = 1

\* the entries of cache c as top_hits tags them
LiveEntries(c) ==
    { [ hash |-> h, handle |-> c.render_pipelines[h].handle,
        hit_count |-> c.render_pipelines[h].hit_count,
        pipeline_type |-> "render" ] : h \in DOMAIN c.render_pipelines }
    \cup
    { [ hash |-> h, handle |-> c.compute_pipelines[h].handle,
        hit_count |-> c.compute_pipelines[h].hit_count,
        pipeline_type |-> "compute" ] : h \in DOMAIN c.compute_pipelines }

\* C26: top_hits(n) returns min(n, number of entries) elements, each a live
\* entry tagged with its kind and none twice, in order of non-increasing
\* hit_count; a live entry that is left out has a hit_count no greater than
\* any in the result; the cache is unchanged.
C26_TopHits ==
    [][ last'.op = "top_hits" =>
            LET r    == last'.ret
                live == LiveEntries(PIPELINE_CACHE)
            IN  /\ Len(r) = Min(last'.top_n, Cardinality(live))
                /\ \A i \in 1..Len(r) : r[i] \in live
                /\ \A i, j \in 1..Len(r) : r[i] = r[j] => i = j
                /\ \A i \in 1..(Len(r) - 1) : r[i].hit_count >= r[i + 1].hit_count
                /\ \A e \in live :
                       (\A i \in 1..Len(r) : r[i] # e) =>
                           \A i \in 1..Len(r) : e.hit_count <= r[i].hit_count
                /\ PIPELINE_CACHE' = PIPELINE_CACHE ]_vars

\* top_hits(1) has returned the one entry with two hits out of three entries
\* of both kinds
C26_Witness ==
    /\ last.op = "top_hits"
    /\ last.top_n = 1
    /\ Len(last.ret) = 1
    /\ last.ret[1].hit_count = 2
    /\ Cardinality(LiveEntries(PIPELINE_CACHE)) = 3
    /\ PIPELINE_CACHE.render_pipelines # EmptyMap
    /\ PIPELINE_CACHE.compute_pipelines # EmptyMap

\* the offsets on free_lists[order] of allocator a
FreeSet(a, order) ==
    { FreeList(a, order)[i] : i \in 1..Len(FreeList(a, order)) }

\* the order-k block that contains offset o, and that block's buddy
BlockAt(a, o, k) == o - (o % BlockSize(a, k))
BuddyOf(a, o, k) ==
    IF (BlockAt(a, o, k) \div BlockSize(a, k)) % 2 = 0
    THEN BlockAt(a, o, k) + BlockSize(a, k)
    ELSE BlockAt(a, o, k) - BlockSize(a, k)

\* no two buddies of one order below max_order are both free
NoFreeBuddies(a) ==
    \A k \in 0..(a.max_order - 1) :
        \A x \in FreeSet(a, k) : BuddyOf(a, x, k) \notin FreeSet(a, k)

\* the order at which a freed block of order k at offset o comes to rest:
\* the first order from k up whose buddy is not free, or max_order
RestOrder(a, o, k) ==
    CHOOSE j \in k..a.max_order :
        /\ \A i \in k..(j - 1) : BuddyOf(a, o, i) \in FreeSet(a, i)
        /\ j < a.max_order => BuddyOf(a, o, j) \notin FreeSet(a, j)

\* C28: merge rule. free of an order-k block merges it with its buddy exactly
\* when the buddy is on free_lists[k], giving the block of order k+1 at the
\* lower of the two offsets, and goes on upward; after every allocate or free
\* no two buddies of one order below max_order are both free, and a block is
\* never merged with a buddy that is allocated or split.
C28_MergeRule ==
    [][ /\ \A id \in DOMAIN ALLOCATORS' : NoFreeBuddies(ALLOCATORS'[id])
        /\ (last'.op = "free" /\ last'.ret = 1) =>
               LET a  == ALLOCATORS[last'.allocator_id]
                   na == ALLOCATORS'[last'.allocator_id]
                   o  == last'.offset
                   k  == a.allocated[o]
                   j  == RestOrder(a, o, k)
               IN  /\ \A i \in k..(j - 1) :
                          /\ FreeSet(na, i) = FreeSet(a, i) \ {BuddyOf(a, o, i)}
                          /\ \A x \in DOMAIN a.allocated :
                                 BlockAt(a, x, i) # BuddyOf(a, o, i)
                   /\ FreeSet(na, j) = FreeSet(a, j) \cup {BlockAt(a, o, j)}
                   /\ Len(FreeList(na, j)) = Len(FreeList(a, j)) + 1
                   /\ \A i \in 0..a.max_order :
                          (i < k \/ i > j) => FreeList(na, i) = FreeList(a, i) ]_vars

\* free(128) has merged the order-0 block with its free buddy at 192 and
\* stopped at order 1: the buddy of that block, at 0, is split and holds the
\* allocations at 0 and 64
C28_Witness ==
    /\ last.op = "free"
    /\ last.ret = 1
    /\ last.allocator_id \in DOMAIN ALLOCATORS
    /\ last.offset = 128
    /\ DOMAIN ALLOCATORS[last.allocator_id].allocated = {0, 64}
    /\ FreeSet(ALLOCATORS[last.allocator_id], 0) = {}
    /\ FreeSet(ALLOCATORS[last.allocator_id], 1) = {128}

\* C29: offset invariant. In every reachable state every offset on
\* free_lists[k] and every allocated offset recorded with order k is a
\* multiple of min_block_size * 2^k and the block ends inside the arena.
C29_OffsetInvariant ==
    \A id \in DOMAIN ALLOCATORS :
        LET a == ALLOCATORS[id] IN
        /\ \A k \in 0..a.max_order :
               \A x \in FreeSet(a, k) :
                   /\ x % BlockSize(a, k) = 0
                   /\ x + BlockSize(a, k) <= a.size
        /\ \A x \in DOMAIN a.allocated :
               /\ a.allocated[x] \in 0..a.max_order
               /\ x % BlockSize(a, a.allocated[x]) = 0
               /\ x + BlockSize(a, a.allocated[x]) <= a.size

\* an allocator holds allocations of two orders and free blocks of three
C29_Witness ==
    \E id \in DOMAIN ALLOCATORS :
        LET a == ALLOCATORS[id] IN
        /\ \E x, y \in DOMAIN a.allocated : a.allocated[x] # a.allocated[y]
        /\ Cardinality({ k \in 0..a.max_order : FreeSet(a, k) # {} }) >= 3

\* the order allocate computes for a request of size bytes
OrderOf(a, size) ==
    trailing_zeros(next_power_of_two(Max(size, a.min_block_size))
                       \div a.min_block_size)

\* C30: split. When allocate needs order k and the smallest order with a free
\* block is j > k, it takes the block o that pop yields from free_lists[j],
\* returns o, and adds exactly the upper halves o + min_block_size * 2^i to
\* free_lists[i] for i in k..j-1; no other free list entry changes.  For
\* j = k it pops free_lists[k] and returns that block.
C30_Split ==
    [][ (last'.op = "allocate" /\ last'.res = "ok") =>
            LET a  == ALLOCATORS[last'.allocator_id]
                na == ALLOCATORS'[last'.allocator_id]
                k  == OrderOf(a, last'.size)
                j  == CHOOSE m \in k..a.max_order :
                          /\ FreeList(a, m) # <<>>
                          /\ \A i \in k..(m - 1) : FreeList(a, i) = <<>>
                o  == FreeList(a, j)[Len(FreeList(a, j))]
            IN  /\ last'.ret.offset = o
                /\ FreeList(na, j) = SubSeq(FreeList(a, j), 1, Len(FreeList(a, j)) - 1)
                /\ \A i \in k..(j - 1) :
                       FreeList(na, i) = <<o + a.min_block_size * (2 ^ i)>>
                /\ \A i \in 0..a.max_order :
                       (i < k \/ i > j) => FreeList(na, i) = FreeList(a, i)
                /\ na.allocated = MapInsert(a.allocated, o, k) ]_vars

\* allocate(100) has split the order-2 block at 256 of an allocator whose
\* block at 0 is taken: it returned 256 and left 384 free at order 1
C30_Witness ==
    /\ last.op = "allocate"
    /\ last.res = "ok"
    /\ last.size = 100
    /\ last.ret.offset = 256
    /\ last.allocator_id \in DOMAIN ALLOCATORS
    /\ FreeSet(ALLOCATORS[last.allocator_id], 1) = {384}
    /\ FreeSet(ALLOCATORS[last.allocator_id], 2) = {}
    /\ FreeSet(ALLOCATORS[last.allocator_id], 3) = {512}

\* the threads that hold mutex m
Inside(m) ==
    { t \in Threads : threads[t].pc = "inside" /\ LockOf(threads[t].call) = m }

\* the bytes of the block of allocator a allocated at offset x
BlockBytes(a, x) == x .. (x + BlockSize(a, a.allocated[x]) - 1)

\* C27: per-component linearizability. Whatever the interleaving of the
\* threads, at most one thread is inside the calls of a component at a time,
\* and a call that returns has stored and returned what it would have stored
\* and returned had it run alone, from entry to return, on the component as it
\* was at the moment of its return: the calls take effect one at a time in
\* the order of their returns.  In particular a buffer_pool_acquire that
\* returns a handle returns one that was not in use and that no other thread
\* inside an acquire is about to return, and a buddy_allocator_allocate that
\* returns a block returns one that overlaps no block allocated before it.
C27_Linearizable ==
    [][ /\ \A m \in Locks : Cardinality(Inside(m)) <= 1
        /\ last'.op = "return" =>
               LET call == last'.call
                   t    == last'.thread
               IN /\ [ state |-> IF LockOf(call) = "BUFFER_POOL"
                                 THEN BUFFER_POOL' ELSE ALLOCATORS',
                       ret   |-> last'.ret ]
                         \in Outcomes(call, BUFFER_POOL, ALLOCATORS)
                  /\ (call.op = "acquire" /\ last'.ret # 0) =>
                         /\ BUFFER_POOL.buffers[last'.ret].in_use = 0
                         /\ BUFFER_POOL'.buffers[last'.ret].in_use = 1
                         /\ \A u \in Threads \ {t} :
                                (threads[u].pc = "inside"
                                     /\ threads[u].call.op = "acquire")
                                    => threads[u].out.ret # last'.ret
                  /\ (call.op = "allocate" /\ last'.ret.size # 0) =>
                         LET a == ALLOCATORS[call.allocator_id]
                             b == ALLOCATORS'[call.allocator_id]
                             o == last'.ret.offset
                         IN /\ o \notin DOMAIN a.allocated
                            /\ DOMAIN b.allocated = DOMAIN a.allocated \cup {o}
                            /\ \A x \in DOMAIN a.allocated :
                                   /\ b.allocated[x] = a.allocated[x]
                                   /\ BlockBytes(b, x) \cap
                                          (o .. (o + last'.ret.size - 1)) = {}
      ]_vars

\* two threads were in buffer_pool_acquire for the same size and usage at
\* once, one has just returned the second buffer of the pool, the first
\* being in use already, and the other is still waiting for the mutex
C27_Witness ==
    /\ last.op = "return"
    /\ last.call.op = "acquire"
    /\ last.ret # 0
    /\ \A h \in DOMAIN BUFFER_POOL.buffers : BUFFER_POOL.buffers[h].in_use = 1
    /\ Cardinality(DOMAIN BUFFER_POOL.buffers) = 2
    /\ \E u \in Threads \ {last.thread} :
           /\ threads[u].pc = "wait"
           /\ threads[u].call = last.call

\* the chunks a belt holds, active ones first
ChunksOf(b) == b.active_chunks \o b.free_chunks

\* C31: chunk conservation. In every belt of the registry, after every write
\* and every finish, the chunks of active_chunks and free_chunks carry
\* pairwise distinct buffer_handles, these are exactly the ids issued so far
\* (1 .. next_buffer_id - 1), nothing stays in the recycle channel, and
\* stats().total_allocated is the number of ids issued times chunk_size.
C31_ChunkConservation ==
    \A id \in DOMAIN STAGING_BELTS :
        LET b   == STAGING_BELTS[id]
            all == ChunksOf(b)
        IN /\ \A i, j \in 1..Len(all) :
                  i # j => all[i].buffer_handle # all[j].buffer_handle
           /\ Len(all) = b.next_buffer_id - 1
           /\ { all[i].buffer_handle : i \in 1..Len(all) }
                  = 1..(b.next_buffer_id - 1)
           /\ b.channel = <<>>
           /\ belt_stats(b).total_allocated
                  = (b.next_buffer_id - 1) * b.chunk_size

\* a write has just taken one of two recycled chunks from the free list: the
\* belt has issued two ids, one chunk is active and the other free
C31_Witness ==
    /\ last.op = "belt_write"
    /\ last.from = "free"
    /\ last.belt \in DOMAIN STAGING_BELTS
    /\ LET b == STAGING_BELTS[last.belt] IN
       /\ b.next_buffer_id = 3
       /\ Len(b.active_chunks) = 1
       /\ Len(b.free_chunks) = 1

\* C32: registry ids. Both id counters start at 1 and never go down; a create
\* that returns hands out the counter's value, which no live entry carries,
\* and moves the counter one up, so the ids come out as 1, 2, 3, ... and a
\* destroyed id is not issued again; buddy_allocator_destroy returns 1 exactly
\* when it removed a live allocator; allocate, free, stats, write and finish
\* on an id the registry does not hold return the all-zero result (0 for
\* free) and leave both registries as they were.
C32_RegistryIds ==
    /\ NEXT_ALLOCATOR_ID = 1
    /\ NEXT_BELT_ID = 1
    /\ [][ /\ NEXT_ALLOCATOR_ID' >= NEXT_ALLOCATOR_ID
           /\ NEXT_BELT_ID' >= NEXT_BELT_ID
           /\ \A id \in DOMAIN ALLOCATORS' : id < NEXT_ALLOCATOR_ID'
           /\ \A id \in DOMAIN STAGING_BELTS' : id < NEXT_BELT_ID'
           /\ (last'.op = "create" /\ last'.outcome = "returned") =>
                  /\ last'.id = NEXT_ALLOCATOR_ID
                  /\ NEXT_ALLOCATOR_ID' = last'.id + 1
                  /\ DOMAIN ALLOCATORS' = DOMAIN ALLOCATORS \cup {last'.id}
                  /\ \A id \in DOMAIN ALLOCATORS : ALLOCATORS'[id] = ALLOCATORS[id]
           /\ last'.op = "belt_create" =>
                  /\ last'.ret = NEXT_BELT_ID
                  /\ NEXT_BELT_ID' = last'.ret + 1
                  /\ DOMAIN STAGING_BELTS' = DOMAIN STAGING_BELTS \cup {last'.ret}
                  /\ \A id \in DOMAIN STAGING_BELTS :
                         STAGING_BELTS'[id] = STAGING_BELTS[id]
           /\ last'.op = "destroy" =>
                  /\ last'.ret = 1 <=> last'.allocator_id \in DOMAIN ALLOCATORS
                  /\ last'.ret \in {0, 1}
                  /\ DOMAIN ALLOCATORS' = DOMAIN ALLOCATORS \ {last'.allocator_id}
                  /\ \A id \in DOMAIN ALLOCATORS' : ALLOCATORS'[id] = ALLOCATORS[id]
           /\ ( /\ last'.op \in {"allocate", "free", "stats"}
                /\ last'.allocator_id \notin DOMAIN ALLOCATORS ) =>
                  /\ last'.op = "allocate" => last'.ret = [offset |-> 0, size |-> 0]
                  /\ last'.op = "free" => last'.ret = 0
                  /\ last'.op = "stats" =>
                         \A f \in DOMAIN last'.ret : last'.ret[f] = 0
                  /\ UNCHANGED <<ALLOCATORS, NEXT_ALLOCATOR_ID,
                                 STAGING_BELTS, NEXT_BELT_ID>>
           /\ ( /\ last'.op \in {"belt_write", "belt_finish", "belt_stats"}
                /\ last'.belt \notin DOMAIN STAGING_BELTS ) =>
                  /\ last'.op = "belt_write" =>
                         \A f \in DOMAIN last'.ret : last'.ret[f] = 0
                  /\ last'.op = "belt_stats" =>
                         \A f \in DOMAIN last'.ret : last'.ret[f] = 0
                  /\ UNCHANGED <<ALLOCATORS, NEXT_ALLOCATOR_ID,
                                 STAGING_BELTS, NEXT_BELT_ID>>
         ]_vars

\* allocator 1 was destroyed, allocator 2 was created after it and holds a
\* block, and an allocate on id 1 has just returned the all-zero Allocation
C32_Witness ==
    /\ last.op = "allocate"
    /\ last.allocator_id = 1
    /\ last.ret = [offset |-> 0, size |-> 0]
    /\ DOMAIN ALLOCATORS = {2}
    /\ DOMAIN ALLOCATORS[2].allocated # {}
    /\ NEXT_ALLOCATOR_ID = 3

\* C33: termination. Every call a thread has made returns.  On the way,
\* each further level of allocate_order is one order higher than the one
\* before and at most max_order, each further level of free_order likewise,
\* the channel holds exactly the chunks finish has just reset and sent when
\* its receive loop starts, every turn of that loop takes one chunk out, and
\* the loop ends with the channel empty.  What the stepwise call leaves
\* behind and returns is what allocate, free and finish compute in one go.
C33_Termination ==
    /\ [][ \A t \in Threads :
             LET me == threads[t]
                 to == threads'[t]
             IN (last'.op \in {"step", "return"} /\ last'.thread = t) =>
                /\ (me.pc = "allocate_order" /\ to.pc = "allocate_order") =>
                       /\ to.j = me.j + 1
                       /\ to.j <= ALLOCATORS[me.call.id].max_order
                /\ (me.pc = "free_order" /\ to.pc = "free_order") =>
                       /\ to.order = me.order + 1
                       /\ to.order <= ALLOCATORS[me.call.id].max_order
                /\ (me.pc = "drain" /\ to.pc = "recv") =>
                       STAGING_BELTS[me.call.id].channel
                           = ResetAll(me.pre[me.call.id].active_chunks)
                /\ (me.pc = "recv" /\ to.pc = "recv") =>
                       Len(STAGING_BELTS'[me.call.id].channel)
                           = Len(STAGING_BELTS[me.call.id].channel) - 1
                /\ (me.pc = "recv" /\ to.pc = "unlock") =>
                       STAGING_BELTS[me.call.id].channel = <<>>
                /\ (me.pc = "unlock" /\ to.pc = "idle") =>
                       LET call == me.call IN
                       /\ call.op = "allocate" =>
                              LET r == allocate(me.pre[call.id], call.size) IN
                              /\ ALLOCATORS[call.id] = r.a
                              /\ (me.ret.size # 0) = (r.res = "ok")
                              /\ me.ret.offset = r.offset
                       /\ call.op = "free" =>
                              LET r == free(me.pre[call.id], call.offset) IN
                              /\ ALLOCATORS[call.id] = r.a
                              /\ (me.ret.code = 1) = r.ok
                       /\ call.op = "finish" =>
                              STAGING_BELTS[call.id] = finish(me.pre[call.id])
         ]_vars
    /\ \A t \in Threads :
           (threads[t].pc # "idle") ~> (threads[t].pc = "idle")

\* a free has just returned after merging at every order from 0 up to
\* max_order, which put the whole arena back on the top free list
C33_Witness ==
    /\ last.op = "return"
    /\ last.call.op = "free"
    /\ last.ret.code = 1
    /\ Cardinality(DOMAIN last.pre[1].allocated) = 1
    /\ \E x \in DOMAIN last.pre[1].allocated : last.pre[1].allocated[x] = 0
    /\ ALLOCATORS[1] = New(1024, 64)

\* the blocks of allocator a as <<first byte, size>>: the entries of the free
\* lists, position by position, and the live allocations
LiveFreeBlocks(a) ==
    UNION { { <<k, i>> : i \in 1..Len(FreeList(a, k)) } : k \in 0..a.max_order }
FreeRange(a, e) == <<FreeList(a, e[1])[e[2]], BlockSize(a, e[1])>>
Ranges(a) ==
    [ e \in LiveFreeBlocks(a) \cup { <<-1, x>> : x \in DOMAIN a.allocated } |->
        IF e[1] = -1
        THEN <<e[2], BlockSize(a, a.allocated[e[2]])>>
        ELSE FreeRange(a, e) ]

\* C34: partition. In every allocator the free-list entries and the live
\* allocations are byte ranges inside [0, size) no two of which share a byte,
\* and their sizes add up to size, so together they cover the arena exactly;
\* the free-list blocks alone add up to size - allocated_bytes.
C34_Partition ==
    \A id \in DOMAIN ALLOCATORS :
        LET a == ALLOCATORS[id]
            r == Ranges(a)
        IN /\ \A e \in DOMAIN r :
                  /\ r[e][1] >= 0
                  /\ r[e][1] + r[e][2] <= a.size
           /\ \A e, f \in DOMAIN r :
                  e # f => \/ r[e][1] + r[e][2] <= r[f][1]
                           \/ r[f][1] + r[f][2] <= r[e][1]
           /\ SumOver([e \in DOMAIN r |-> r[e][2]], DOMAIN r) = a.size
           /\ SumOver([e \in LiveFreeBlocks(a) |-> FreeRange(a, e)[2]],
                      LiveFreeBlocks(a))
                  = a.size - stats(a).allocated_bytes

\* a block between two live allocations has just been freed: the allocator
\* holds two allocations and at least two free blocks
C34_Witness ==
    /\ last.op = "free"
    /\ last.ret = 1
    /\ last.allocator_id \in DOMAIN ALLOCATORS
    /\ LET a == ALLOCATORS[last.allocator_id] IN
       /\ Cardinality(DOMAIN a.allocated) = 2
       /\ \E x, y \in DOMAIN a.allocated :
              x < last.offset /\ last.offset < y
       /\ Cardinality(LiveFreeBlocks(a)) >= 2

\* C35: completeness. An allocate on a live allocator whose order k is at
\* most max_order returns a block exactly when some free list of an order
\* from k to max_order holds one, and then allocated maps the returned
\* offset to k; it returns the all-zero Allocation exactly when all those
\* lists are empty, and then the allocator is as it was.
C35_Completeness ==
    [][ ( /\ last'.op = "allocate"
          /\ last'.allocator_id \in DOMAIN ALLOCATORS
          /\ OrderOf(ALLOCATORS[last'.allocator_id], last'.size)
                 <= ALLOCATORS[last'.allocator_id].max_order ) =>
            LET a    == ALLOCATORS[last'.allocator_id]
                b    == ALLOCATORS'[last'.allocator_id]
                k    == OrderOf(a, last'.size)
                some == \E j \in k..a.max_order : FreeList(a, j) # <<>>
            IN /\ some =>
                      /\ last'.res = "ok"
                      /\ last'.ret.size = BlockSize(a, k)
                      /\ last'.ret.offset \in DOMAIN b.allocated
                      /\ b.allocated[last'.ret.offset] = k
               /\ ~some =>
                      /\ last'.res = "OutOfMemory"
                      /\ last'.ret = [offset |-> 0, size |-> 0]
                      /\ b = a
      ]_vars

\* an allocate of the whole arena has just failed although blocks of every
\* lower order were free
C35_Witness ==
    /\ last.op = "allocate"
    /\ last.res = "OutOfMemory"
    /\ last.allocator_id \in DOMAIN ALLOCATORS
    /\ LET a == ALLOCATORS[last.allocator_id] IN
       /\ OrderOf(a, last.size) = a.max_order
       /\ \A j \in 0..(a.max_order - 1) : FreeList(a, j) # <<>>

\* C36: size accounting. After any sequence of add, remove, acquire, release,
\* evict, configure and clear, total_size is the sum of the sizes of the
\* entries the pool holds.
C36_SizeAccounting ==
    BUFFER_POOL.total_size = SizeOf(BUFFER_POOL, DOMAIN BUFFER_POOL.buffers)

\* the handles an acquire has returned that pool p still counts as held
Held(p) == { h \in DOMAIN p.buffers : p.buffers[h].in_use = 1 }

\* C37: exclusive hold. A handle that acquire has returned stays held until
\* release, remove of that handle, or clear is called, whatever else is
\* called in between, add of the held handle included; and acquire returns
\* only a handle that is not held, which is held from then on.
C37_ExclusiveHold ==
    [][ /\ \A h \in Held(BUFFER_POOL) \ Held(BUFFER_POOL') :
               \/ last'.op \in {"release", "remove"} /\ last'.handle = h
               \/ last'.op = "clear"
        /\ (last'.op = "acquire" /\ last'.ret # 0) =>
               /\ last'.ret \notin Held(BUFFER_POOL)
               /\ last'.ret \in Held(BUFFER_POOL')
      ]_vars

\* C38: counter accounting. hits and misses start at 0, every acquire adds
\* one to exactly one of them and leaves the other alone, and no other call
\* changes either, so hits + misses is the number of acquire calls made.
C38_CounterAccounting ==
    /\ BUFFER_POOL.hits = 0
    /\ BUFFER_POOL.misses = 0
    /\ [][ LET dh == BUFFER_POOL'.hits - BUFFER_POOL.hits
               dm == BUFFER_POOL'.misses - BUFFER_POOL.misses
           IN IF last'.op = "acquire"
              THEN /\ <<dh, dm>> \in {<<1, 0>>, <<0, 1>>}
                   /\ dh = 1 <=> last'.ret # 0
              ELSE dh = 0 /\ dm = 0
         ]_vars

\* a clear has just emptied the pool after one hit and one miss, and both
\* counters are as the two acquires left them
C38_Witness ==
    /\ last.op = "clear"
    /\ BUFFER_POOL.hits = 1
    /\ BUFFER_POOL.misses = 1
    /\ BUFFER_POOL.buffers = EmptyMap

\* the hits counted on the entries cache c holds
HitSum(c) ==
    SumOver([h \in DOMAIN c.render_pipelines |-> c.render_pipelines[h].hit_count],
            DOMAIN c.render_pipelines)
    + SumOver([h \in DOMAIN c.compute_pipelines |-> c.compute_pipelines[h].hit_count],
              DOMAIN c.compute_pipelines)

\* C39: cache counters. total_hits and total_misses start at 0, every lookup
\* adds one to exactly one of them, and insert, remove, clear, stats and
\* top_hits change neither, so neither ever decreases and their sum is the
\* number of lookups made; the hit_counts of the entries the cache holds
\* never add up to more than total_hits.
C39_CacheCounters ==
    /\ PIPELINE_CACHE.total_hits = 0
    /\ PIPELINE_CACHE.total_misses = 0
    /\ [][ LET dh == PIPELINE_CACHE'.total_hits - PIPELINE_CACHE.total_hits
               dm == PIPELINE_CACHE'.total_misses - PIPELINE_CACHE.total_misses
           IN /\ IF last'.op \in {"lookup_render", "lookup_compute"}
                 THEN /\ <<dh, dm>> \in {<<1, 0>>, <<0, 1>>}
                      /\ dh = 1 <=> last'.opt.some
                 ELSE dh = 0 /\ dm = 0
              /\ HitSum(PIPELINE_CACHE') <= PIPELINE_CACHE'.total_hits
         ]_vars

\* an insert has just replaced a render entry that had one hit: the cache
\* has counted two hits and one miss, and the entries it holds show one hit
C39_Witness ==
    /\ last.op = "insert_render"
    /\ last.old_hits = 1
    /\ PIPELINE_CACHE.total_hits = 2
    /\ PIPELINE_CACHE.total_misses = 1
    /\ HitSum(PIPELINE_CACHE) = 1

\* the threads that are inside a call and not kept waiting by a mutex
Runnable ==
    { t \in Threads :
        /\ threads[t].pc # "idle"
        /\ threads[t].pc = "lock" => locks[Head(threads[t].todo)] = 0 }

\* C40: registry deadlock freedom. Whatever the interleaving of create and
\* destroy calls on the two registries, whenever some thread is inside a
\* call some thread inside a call can take its next step, every call
\* returns, and the id a create returns has been returned by no create of
\* the same registry before, to this thread or to another, nor is it the id
\* another thread is about to return.
C40_DeadlockFree ==
    /\ []( (\E t \in Threads : threads[t].pc # "idle") => Runnable # {} )
    /\ [][ ( /\ last'.op = "return"
             /\ last'.call.op \in {"buddy_allocator_create",
                                   "staging_belt_create"} ) =>
               /\ last'.ret >= 1
               /\ \A u \in Threads :
                      <<last'.call.op, last'.ret>> \notin threads[u].ids
               /\ \A u \in Threads \ {last'.thread} :
                      ( /\ threads[u].pc \in {"increment", "insert", "return"}
                        /\ threads[u].call = last'.call )
                          => threads[u].id # last'.ret
         ]_vars
    /\ \A t \in Threads :
           (threads[t].pc # "idle") ~> (threads[t].pc = "idle")

\* two threads were in buddy_allocator_create at once and were given ids 1
\* and 2; the one given id 1 has called create again and waits for the
\* registry mutex while the other returns
C40_Witness ==
    /\ last.op = "return"
    /\ last.call.op = "buddy_allocator_create"
    /\ last.ret = 2
    /\ \E u \in Threads \ {last.thread} :
           /\ <<"buddy_allocator_create", 1>> \in threads[u].ids
           /\ threads[u].pc = "lock"
           /\ threads[u].call.op = "buddy_allocator_create"
           /\ Len(threads[u].todo) = 2

=============================================================================
